---- MODULE Spec2Model ----
(***************************************************************************)
(* State-machine model of the browser seat optimizer                       *)
(* (src/public/optimizer.js, class SeatOptimizer).                         *)
(*                                                                         *)
(* Conventions.                                                            *)
(*  - Real numbers are fixed point: a score or a probability x is the      *)
(*    integer floor(x * Scale).  Math.random() returns a value of RandVals *)
(*    (thousandths), and every use of it is computed as the code computes  *)
(*    it (a comparison with a rate, or Math.floor(r * k)).                 *)
(*  - A JavaScript array is a 1-based sequence: JS index i is TLA+ index   *)
(*    i + 1.  Seat positions keep their JS values 0 .. R*C-1.              *)
(*  - undefined is the value Undef, NaN is the value NaN, the missing      *)
(*    seat marker of the code is -1.                                       *)
(***************************************************************************)
EXTENDS Integers, Sequences, FiniteSets, TLC

\* ------------------------------------------------------------------------
\* Value encodings and bounds
\* ------------------------------------------------------------------------
Scale == 1000
Undef == -2
NaN == -7
\* null, and the two abnormal outcomes of a computation, as values that are
\* no array of seats
Null == <<-90>>

\* Values Math.random() may return, in thousandths.
RandVals == {0, 450, 999}

\* ------------------------------------------------------------------------
\* Arithmetic helpers
\* ------------------------------------------------------------------------
Abs(x) == IF x < 0 THEN -x ELSE x
Max(a, b) == IF a >= b THEN a ELSE b
Min(a, b) == IF a <= b THEN a ELSE b

RECURSIVE SqrtSearch(_, _, _)
SqrtSearch(n, lo, hi) ==
    IF lo >= hi THEN lo
    ELSE LET mid == (lo + hi + 1) \div 2
         IN IF mid * mid <= n THEN SqrtSearch(n, mid, hi)
            ELSE SqrtSearch(n, lo, mid - 1)

\* floor(sqrt(n)) for 0 <= n < 2^30
ISqrt(n) == SqrtSearch(n, 0, 32767)

\* Math.floor(r * k) for a draw r (thousandths) and an integer k of any sign.
\* For k < 0 and r = 0 JavaScript yields -0, which indexes like 0.
FloorMul(r, k) == (r * k) \div Scale

RECURSIVE SumSeq(_)
SumSeq(s) == IF s = <<>> THEN 0 ELSE Head(s) + SumSeq(Tail(s))

\* ------------------------------------------------------------------------
\* setVenue: the seat table (seat position p = r * cols + c)
\* ------------------------------------------------------------------------
TotalSeats(v) == v.rows * v.cols
SeatRow(v, p) == p \div v.cols
SeatCol(v, p) == p % v.cols
SeatIsVip(v, p) == SeatRow(v, p) < v.vipRows

\* a seat record with its row and column exchanged
SeatRecordSwapped(v, r, c) ==
    [row |-> c, col |-> r, isVip |-> r < v.vipRows, position |-> r * v.cols + c]

\* the record pushed for row r, column c
SeatRecord(v, r, c) ==
    [row |-> r, col |-> c, isVip |-> r < v.vipRows, position |-> r * v.cols + c]

\* this.venue.seats, as the two nested loops push it
RECURSIVE SeatsFrom(_, _, _)
SeatsFrom(v, r, c) ==
    IF r >= v.rows THEN <<>>
    ELSE IF c >= v.cols THEN SeatsFrom(v, r + 1, 0)
    ELSE <<SeatRecord(v, r, c)>> \o SeatsFrom(v, r, c + 1)

Seats(v) == SeatsFrom(v, 0, 0)

\* 4 * distanceToStage^2 = 4 (r+1)^2 + (2c - cols)^2, an integer
DistSq4(v, p) ==
    4 * (SeatRow(v, p) + 1) * (SeatRow(v, p) + 1)
      + (2 * SeatCol(v, p) - v.cols) * (2 * SeatCol(v, p) - v.cols)

\* distanceToStage, fixed point
DistanceToStage(v, p) == ISqrt((DistSq4(v, p) * Scale * Scale) \div 4)

\* 4 * maxVenueDist^2 = 4 (rows+1)^2 + cols^2
MaxDistSq4(v) == 4 * (v.rows + 1) * (v.rows + 1) + v.cols * v.cols

\* seat.distanceToStage / maxVenueDist, fixed point
DistRatio(v, p) == ISqrt((DistSq4(v, p) * Scale * Scale) \div MaxDistSq4(v))

\* this.venue.seats[x]: undefined unless x is a seat position
IsSeat(v, x) == x \in 0 .. TotalSeats(v) - 1

getSeatDistance(v, p, q) ==
    Abs(SeatRow(v, p) - SeatRow(v, q)) + Abs(SeatCol(v, p) - SeatCol(v, q))

\* ------------------------------------------------------------------------
\* setAttendees: attendee records, group map, friendship map
\* ------------------------------------------------------------------------
\* a.priority || 5
NormalizeAttendee(a) ==
    [type |-> a.type, group |-> a.group,
     priority |-> IF a.priority = 0 THEN 5 ELSE a.priority,
     preference |-> a.preference]

NormalizeAttendees(list) == [i \in 1 .. Len(list) |-> NormalizeAttendee(list[i])]

\* group tags in order of first appearance (Map insertion order)
RECURSIVE GroupNames(_, _)
GroupNames(att, i) ==
    IF i > Len(att) THEN <<>>
    ELSE IF att[i].group # "" /\ \A j \in 1 .. i - 1 : att[j].group # att[i].group
         THEN <<att[i].group>> \o GroupNames(att, i + 1)
         ELSE GroupNames(att, i + 1)

\* members of a group, in attendee order
RECURSIVE MembersFrom(_, _, _)
MembersFrom(att, g, i) ==
    IF i > Len(att) THEN <<>>
    ELSE IF att[i].group = g THEN <<i>> \o MembersFrom(att, g, i + 1)
         ELSE MembersFrom(att, g, i + 1)

\* this.groups as a sequence of member lists, in insertion order
Groups(att) ==
    LET names == GroupNames(att, 1)
    IN [k \in 1 .. Len(names) |-> MembersFrom(att, names[k], 1)]

GroupOf(att, i) ==
    IF att[i].group = "" THEN <<>> ELSE MembersFrom(att, att[i].group, 1)

\* this.friendships as the sequence of ordered pairs <<m1, m2>> in the order
\* in which forEach visits them (group by group, m1 then m2 in member order)
RECURSIVE PairsOf(_, _, _)
PairsOf(members, a, b) ==
    IF a > Len(members) THEN <<>>
    ELSE IF b > Len(members) THEN PairsOf(members, a + 1, 1)
    ELSE IF a = b THEN PairsOf(members, a, b + 1)
    ELSE <<<<members[a], members[b]>>>> \o PairsOf(members, a, b + 1)

RECURSIVE FriendPairsFrom(_, _)
FriendPairsFrom(gs, k) ==
    IF k > Len(gs) THEN <<>>
    ELSE PairsOf(gs[k], 1, 1) \o FriendPairsFrom(gs, k + 1)

Friendships(att) == FriendPairsFrom(Groups(att), 1)

\* ------------------------------------------------------------------------
\* Arrays
\* ------------------------------------------------------------------------
\* chromosome[i] for a JS index i (undefined outside the array)
At(chr, i) == IF i + 1 \in 1 .. Len(chr) THEN chr[i + 1] ELSE Undef

\* this.venue.seats[chromosome[i]] is a seat for every attendee index i: the
\* reads seat.row / seat.distanceToStage of calculateFitness do not throw.
CanEvaluate(v, att, chr) == \A i \in 0 .. Len(att) - 1 : IsSeat(v, At(chr, i))

\* N pairwise-distinct seat positions of the venue, and nothing else
ValidChromosome(v, att, chr) ==
    /\ Len(chr) = Len(att)
    /\ \A i \in 1 .. Len(chr) : IsSeat(v, chr[i])
    /\ \A i, j \in 1 .. Len(chr) : i # j => chr[i] # chr[j]

\* ------------------------------------------------------------------------
\* calculateFitness (defined where CanEvaluate holds)
\* ------------------------------------------------------------------------
\* points (times 10) of one ordered friendship pair at Manhattan distance d
FriendPoints(d) ==
    IF d = 1 THEN 100
    ELSE IF d = 2 THEN 70
    ELSE IF d <= 4 THEN 40
    ELSE Max(0, 20 - d)

FriendScore(v, att, chr) ==
    LET fs == Friendships(att)
    IN SumSeq([k \in 1 .. Len(fs) |->
                 FriendPoints(getSeatDistance(v, chr[fs[k][1]], chr[fs[k][2]]))])

MaxFriendScore(att) == 100 * Len(Friendships(att))

VipPoints(v, att, chr, i) ==
    IF att[i].type # "vip" THEN 0
    ELSE IF SeatIsVip(v, chr[i]) THEN 20
    ELSE Max(0, 10 - SeatRow(v, chr[i]) * 2)

VipScore(v, att, chr) == SumSeq([i \in 1 .. Len(att) |-> VipPoints(v, att, chr, i)])

MaxVipScore(att) ==
    SumSeq([i \in 1 .. Len(att) |-> IF att[i].type = "vip" THEN 20 ELSE 0])

\* personScore * Scale: (1 - distRatio) * 10 * priority / 10
StageScore(v, att, chr) ==
    SumSeq([i \in 1 .. Len(att) |->
              Max(0, (Scale - DistRatio(v, chr[i])) * att[i].priority)])

MaxDistanceScore(att) == SumSeq([i \in 1 .. Len(att) |-> att[i].priority])

\* cohesionPoints of one group: every unordered pair of members
PairCohesion(d) == IF d = 1 THEN 2 ELSE IF d <= 2 THEN 1 ELSE 0

CohesionPoints(v, chr, members) ==
    SumSeq([a \in 1 .. Len(members) |->
              SumSeq([b \in 1 .. Len(members) |->
                        IF a < b
                        THEN PairCohesion(getSeatDistance(v, chr[members[a]],
                                                         chr[members[b]]))
                        ELSE 0])])

\* a contribution without the cap Math.min(members.length * 10, ...)
GroupPointsUncapped(v, chr, members) ==
    IF Len(members) <= 1 THEN 0
    ELSE (CohesionPoints(v, chr, members) * Len(members) * 10 * Scale)
            \div Max(1, (Len(members) - 1) * 2)

\* the group's contribution to groupCohesionScore, times Scale
GroupPoints(v, chr, members) ==
    LET m == Len(members)
        maxPossible == (m - 1) * 2
    IN IF m <= 1 THEN 0
       ELSE Min(m * 10 * Scale,
                (CohesionPoints(v, chr, members) * m * 10 * Scale)
                    \div Max(1, maxPossible))

GroupScore(v, att, chr) ==
    LET gs == Groups(att)
    IN SumSeq([k \in 1 .. Len(gs) |-> GroupPoints(v, chr, gs[k])])

MaxGroupScore(att) ==
    LET gs == Groups(att)
    IN SumSeq([k \in 1 .. Len(gs) |->
                 IF Len(gs[k]) <= 1 THEN 0 ELSE Len(gs[k]) * 10])

\* weights are kept as the fractions num / den that the code computes;
\* den = 0 is the division 0 / 0 of updateWeights(0, 0, 0, 0): every weight NaN
WeightsAreNaN(w) == w.den = 0

\* fitness.total: NaN when the weights are NaN
FitnessTotal(w, nf, nv, ng, nd) ==
    IF WeightsAreNaN(w) THEN NaN
    ELSE (nf * w.friendProximity + nv * w.vipPlacement
            + ng * w.groupCohesion + nd * w.stageDistance)
           \div (w.friendProximity + w.vipPlacement
                   + w.groupCohesion + w.stageDistance)

\* a normalisation that gives an empty category the score 0
NormalizeToZero(score, maxScore) ==
    IF maxScore > 0 THEN score \div maxScore ELSE 0

\* maxScore > 0 ? score / maxScore : 1 (score is given times Scale)
Normalize(score, maxScore) ==
    IF maxScore > 0 THEN score \div maxScore ELSE Scale

calculateFitness(v, att, w, chr) ==
    LET normFriend == Normalize(FriendScore(v, att, chr) * Scale, MaxFriendScore(att))
        normVip == Normalize(VipScore(v, att, chr) * Scale, MaxVipScore(att))
        normGroup == Normalize(GroupScore(v, att, chr), MaxGroupScore(att))
        normDistance == Normalize(StageScore(v, att, chr), MaxDistanceScore(att))
    IN [total |-> FitnessTotal(w, normFriend, normVip, normGroup, normDistance),
        friendProximity |-> normFriend,
        vipPlacement |-> normVip,
        groupCohesion |-> normGroup,
        stageDistance |-> normDistance]

\* a > b on JavaScript numbers: false when either side is NaN
Gt(a, b) == a # NaN /\ b # NaN /\ a > b
Ge(a, b) == a # NaN /\ b # NaN /\ a >= b

\* ------------------------------------------------------------------------
\* Array objects: a JS array together with its negative-index properties
\* (chromosome[-1] = x stores a property and leaves the length alone, while
\* chromosome[i] = x for i >= length extends the array with holes)
\* ------------------------------------------------------------------------
\* the longest block of mutate: Math.floor(Math.random() * 5) + 2 <= 6
MaxBlockLen == 6

\* the least index a block swap reaches: Math.floor(r * (1 - 6))
MinIndex == 1 - MaxBlockLen

NoProps == [k \in 1 .. -MinIndex |-> Undef]

ArrayObj(arr) == [arr |-> arr, neg |-> NoProps]

ObjGet(o, i) == IF i < 0 THEN o.neg[-i] ELSE At(o.arr, i)

ObjSet(o, i, x) ==
    IF i < 0 THEN [o EXCEPT !.neg[-i] = x]
    ELSE IF i < Len(o.arr) THEN [o EXCEPT !.arr[i + 1] = x]
    ELSE [o EXCEPT !.arr = [k \in 1 .. i + 1 |->
                              IF k = i + 1 THEN x ELSE At(o.arr, k - 1)]]

\* an exchange that copies a[j] to a[i] and loses a[i]
ObjCopy(o, i, j) == ObjSet(o, i, ObjGet(o, j))

\* [a[i], a[j]] = [a[j], a[i]]
ObjSwap(o, i, j) == ObjSet(ObjSet(o, i, ObjGet(o, j)), j, ObjGet(o, i))

SwapSeq(chr, i, j) == ObjSwap(ArrayObj(chr), i, j).arr

\* ------------------------------------------------------------------------
\* shuffleArray / generateRandomChromosome
\* ------------------------------------------------------------------------
\* d holds the draws of the loop, first draw first (i = length-1 down to 1)
RECURSIVE ShuffleFrom(_, _, _)
ShuffleFrom(array, i, d) ==
    IF i <= 0 THEN array
    ELSE ShuffleFrom(SwapSeq(array, i, FloorMul(Head(d), i + 1)), i - 1, Tail(d))

shuffleArray(array, d) == ShuffleFrom(array, Len(array) - 1, d)

\* number of Math.random() calls of shuffleArray on n elements
ShuffleDraws(n) == Max(0, n - 1)

generateRandomChromosome(v, att, d) ==
    LET availableSeats == [k \in 1 .. TotalSeats(v) |-> k - 1]
        shuffled == shuffleArray(availableSeats, d)
    IN SubSeq(shuffled, 1, Min(Len(att), Len(shuffled)))

\* ------------------------------------------------------------------------
\* generateGreedySolution
\* ------------------------------------------------------------------------
GroupSize(att, i) == Len(GroupOf(att, i))

\* the comparator of the importance sort: < 0 when a goes before b
GreedyCompare(att, a, b) ==
    IF att[a].type = "vip" /\ att[b].type # "vip" THEN -1
    ELSE IF att[a].type # "vip" /\ att[b].type = "vip" THEN 1
    ELSE IF att[a].priority # att[b].priority
         THEN att[b].priority - att[a].priority
    ELSE GroupSize(att, b) - GroupSize(att, a)

\* stable insertion of x into the sorted sequence s
RECURSIVE InsertSorted(_, _, _)
InsertSorted(att, s, x) ==
    IF s = <<>> THEN <<x>>
    ELSE IF GreedyCompare(att, x, Head(s)) < 0 THEN <<x>> \o s
    ELSE <<Head(s)>> \o InsertSorted(att, Tail(s), x)

RECURSIVE SortedFrom(_, _, _)
SortedFrom(att, i, acc) ==
    IF i > Len(att) THEN acc
    ELSE SortedFrom(att, i + 1, InsertSorted(att, acc, i))

SortedIndices(att) == SortedFrom(att, 1, <<>>)

\* proximity to the members of the attendee's group that are already seated
GreedyGroupScore(v, att, chr, i, seatPos) ==
    LET members == GroupOf(att, i)
    IN SumSeq([k \in 1 .. Len(members) |->
                 IF chr[members[k]] # -1
                 THEN Max(0, 100 - getSeatDistance(v, seatPos, chr[members[k]]) * 20)
                        * Scale
                 ELSE 0])

\* the local score of a free seat for attendee i, times Scale
GreedyScore(v, att, chr, i, seatPos) ==
    LET row == SeatRow(v, seatPos)
        pref == att[i].preference
    IN (IF att[i].type = "vip"
        THEN (IF SeatIsVip(v, seatPos) THEN 200 * Scale ELSE -100 * Scale)
        ELSE 0)
       + (20 * att[i].priority * Scale * Scale)
            \div (DistanceToStage(v, seatPos) + Scale)
       + (IF pref = "front" /\ 3 * row < v.rows THEN 50 * Scale
          ELSE IF pref = "middle" /\ 3 * row >= v.rows /\ 3 * row < 2 * v.rows
               THEN 50 * Scale
          ELSE IF pref = "back" /\ 3 * row >= 2 * v.rows THEN 50 * Scale
          ELSE 0)
       + GreedyGroupScore(v, att, chr, i, seatPos)

\* the seat scan: the first free seat with the strictly highest score, or -1
RECURSIVE BestSeatFrom(_, _, _, _, _, _, _, _)
BestSeatFrom(v, att, chr, used, i, seatPos, bestSeat, bestScore) ==
    IF seatPos >= TotalSeats(v) THEN bestSeat
    ELSE IF seatPos \in used
         THEN BestSeatFrom(v, att, chr, used, i, seatPos + 1, bestSeat, bestScore)
    ELSE LET score == GreedyScore(v, att, chr, i, seatPos)
         IN IF bestSeat = -1 \/ score > bestScore
            THEN BestSeatFrom(v, att, chr, used, i, seatPos + 1, seatPos, score)
            ELSE BestSeatFrom(v, att, chr, used, i, seatPos + 1, bestSeat, bestScore)

RECURSIVE GreedyAssign(_, _, _, _, _)
GreedyAssign(v, att, order, chr, used) ==
    IF order = <<>> THEN chr
    ELSE LET i == Head(order)
             bestSeat == BestSeatFrom(v, att, chr, used, i, 0, -1, 0)
         IN GreedyAssign(v, att, Tail(order),
                         [chr EXCEPT ![i] = bestSeat], used \cup {bestSeat})

generateGreedySolution(v, att) ==
    GreedyAssign(v, att, SortedIndices(att), [i \in 1 .. Len(att) |-> -1], {})

\* ------------------------------------------------------------------------
\* tournamentSelect
\* ------------------------------------------------------------------------
\* d holds the tournamentSize draws.  The result is the index (1-based) of
\* the chosen chromosome, or 0 when best stays null ([...null] throws).
RECURSIVE TournamentFrom(_, _, _, _)
TournamentFrom(fitnessValues, d, best, bestFit) ==
    IF d = <<>> THEN best
    ELSE LET idx == FloorMul(Head(d), Len(fitnessValues)) + 1
         IN IF Gt(fitnessValues[idx].total, bestFit)
            THEN TournamentFrom(fitnessValues, Tail(d), idx, fitnessValues[idx].total)
            ELSE TournamentFrom(fitnessValues, Tail(d), best, bestFit)

tournamentSelect(fitnessValues, d) == TournamentFrom(fitnessValues, d, 0, -1)

\* ------------------------------------------------------------------------
\* crossover / fillCrossoverChild
\* ------------------------------------------------------------------------
Hang == <<-91>>

\* The while loop of fillCrossoverChild.  idle counts the parent steps since
\* the last placement: after a full turn of the parent without a placement
\* the loop state repeats and the loop never ends (result Hang).
RECURSIVE FillLoop(_, _, _, _, _, _)
FillLoop(child, parent, usedSeats, childIdx, parentIdx, idle) ==
    LET length == Len(child)
        seat == At(parent, parentIdx)
    IN IF \A k \in 1 .. length : child[k] # -1 THEN child
       ELSE IF idle >= length THEN Hang
       ELSE IF seat \notin usedSeats
            THEN FillLoop([child EXCEPT ![childIdx + 1] = seat], parent,
                          usedSeats \cup {seat}, (childIdx + 1) % length,
                          (parentIdx + 1) % length, 0)
            ELSE FillLoop(child, parent, usedSeats, childIdx,
                          (parentIdx + 1) % length, idle + 1)

\* a fill that also counts the seats of the parent's own segment as used
fillSkippingSegment(child, parent, start, end) ==
    FillLoop(child, parent,
             ({child[k] : k \in 1 .. Len(child)} \ {-1})
               \cup {parent[k + 1] : k \in start .. end},
             (end + 1) % Len(child), (end + 1) % Len(child), 0)

\* a fill that starts at position 0 of the child and of the parent
fillFromZero(child, parent, start, end) ==
    FillLoop(child, parent, {child[k] : k \in 1 .. Len(child)} \ {-1}, 0, 0, 0)

fillCrossoverChild(child, parent, start, end) ==
    LET length == Len(child)
        usedSeats == {child[k] : k \in 1 .. length} \ {-1}
    IN FillLoop(child, parent, usedSeats, (end + 1) % length,
                (end + 1) % length, 0)

\* the two children for a segment start..end (JS indices)
CrossoverAt(parent1, parent2, start, end) ==
    LET length == Len(parent1)
        child1 == [k \in 1 .. length |->
                     IF k - 1 >= start /\ k - 1 <= end THEN At(parent1, k - 1) ELSE -1]
        child2 == [k \in 1 .. length |->
                     IF k - 1 >= start /\ k - 1 <= end THEN At(parent2, k - 1) ELSE -1]
    IN <<fillCrossoverChild(child1, parent2, start, end),
         fillCrossoverChild(child2, parent1, start, end)>>

\* d = <<r1, r2, r3>>; r2 and r3 are drawn only when r1 <= crossoverRate
crossover(cfg, parent1, parent2, d) ==
    IF d[1] > cfg.crossoverRate THEN <<parent1, parent2>>
    ELSE LET length == Len(parent1)
             start == FloorMul(d[2], length)
             end == start + FloorMul(d[3], length - start)
         IN CrossoverAt(parent1, parent2, start, end)

CrossoverDraws(cfg, r1) == IF r1 > cfg.crossoverRate THEN 1 ELSE 3

\* ------------------------------------------------------------------------
\* mutate
\* ------------------------------------------------------------------------
\* floor(Scale * exp(-gen / 20)), by repeated multiplication with exp(-1/20)
RECURSIVE ExpDecay(_)
ExpDecay(gen) == IF gen <= 0 THEN Scale ELSE (ExpDecay(gen - 1) * 951) \div Scale

\* mutationRate * (1 + exp(-currentGeneration / 20))
MutationRate(cfg, gen) == (cfg.mutationRate * (Scale + ExpDecay(gen))) \div Scale

\* the block swap of mutate: len elementwise swaps, one after the other
RECURSIVE BlockSwapFrom(_, _, _, _, _)
BlockSwapFrom(o, start1, start2, i, len) ==
    IF i >= len THEN o
    ELSE BlockSwapFrom(ObjSwap(o, start1 + i, start2 + i), start1, start2, i + 1, len)

\* const len = Math.floor(Math.random() * 5) + 2
BlockLen(r) == FloorMul(r, 5) + 2

\* Math.floor(Math.random() * (chromosome.length - len))
BlockStart(r, length, len) == FloorMul(r, length - len)

\* d = <<r5, r6, r7>>: block length and the two start offsets
BlockSwap(o, d) ==
    BlockSwapFrom(o, BlockStart(d[2], Len(o.arr), BlockLen(d[1])),
                  BlockStart(d[3], Len(o.arr), BlockLen(d[1])), 0, BlockLen(d[1]))

\* mutate(chromosome) on the draws d = <<r1, ..., r7>>: r2..r4 are drawn only
\* when r1 < rate, r5..r7 only when r4 < 0.3
mutate(cfg, gen, o, d) ==
    IF d[1] >= MutationRate(cfg, gen) THEN o
    ELSE IF d[4] >= 300
         THEN ObjSwap(o, FloorMul(d[2], Len(o.arr)), FloorMul(d[3], Len(o.arr)))
    ELSE BlockSwap(ObjSwap(o, FloorMul(d[2], Len(o.arr)), FloorMul(d[3], Len(o.arr))),
                   <<d[5], d[6], d[7]>>)

\* ------------------------------------------------------------------------
\* smartMutate and its targeted swaps
\* ------------------------------------------------------------------------
Throw == <<-92>>

\* the scan of trySwapForBetterProximity over i = 0 .. chromosome.length-1;
\* reading otherSeat.row throws when chromosome[i] is no seat
RECURSIVE TrySwapFrom(_, _, _, _, _)
TrySwapFrom(v, chr, idx1, idx2, i) ==
    IF i >= Len(chr) THEN chr
    ELSE IF i = idx1 \/ i = idx2 THEN TrySwapFrom(v, chr, idx1, idx2, i + 1)
    ELSE IF ~IsSeat(v, At(chr, i)) THEN Throw
    ELSE IF getSeatDistance(v, At(chr, i), At(chr, idx2)) = 1
         THEN SwapSeq(chr, idx1, i)
    ELSE TrySwapFrom(v, chr, idx1, idx2, i + 1)

\* a scan that looks next to the attendee and moves the friend
trySwapWithFriend(v, chr, idx1, idx2) == TrySwapFrom(v, chr, idx2, idx1, 0)

trySwapForBetterProximity(v, chr, idx1, idx2) == TrySwapFrom(v, chr, idx1, idx2, 0)

MinOf(S) == CHOOSE x \in S : \A y \in S : x <= y

\* the first friendship pair, in map order, seated more than 3 apart
FarPairsOf(v, chr, fs) ==
    {k \in 1 .. Len(fs) : getSeatDistance(v, chr[fs[k][1]], chr[fs[k][2]]) > 3}

FarPairs(v, att, chr) == FarPairsOf(v, chr, Friendships(att))

FirstFarSwap(v, chr, fs, far) ==
    IF far = {} THEN chr
    ELSE trySwapForBetterProximity(v, chr, fs[MinOf(far)][1] - 1, fs[MinOf(far)][2] - 1)

improveFriendProximity(v, att, chr) ==
    FirstFarSwap(v, chr, Friendships(att), FarPairs(v, att, chr))

\* VIPs in a non-VIP seat / non-VIPs in a VIP seat (attendee indices, 1-based)
MisplacedVips(v, att, chr) ==
    {i \in 1 .. Len(att) : att[i].type = "vip" /\ ~SeatIsVip(v, chr[i])}

RegularsInVipSeats(v, att, chr) ==
    {j \in 1 .. Len(att) : att[j].type # "vip" /\ SeatIsVip(v, chr[j])}

\* the pair found by the nested scans of improveVipPlacement and findWeakArea:
\* the inner scan does not depend on i, so it is the first of each kind
FirstOfEach(vips, regulars) ==
    IF vips = {} \/ regulars = {} THEN Null ELSE <<MinOf(vips), MinOf(regulars)>>

FirstVipSwap(v, att, chr) ==
    FirstOfEach(MisplacedVips(v, att, chr), RegularsInVipSeats(v, att, chr))

SwapPair(chr, pair) ==
    IF pair = Null THEN chr ELSE SwapSeq(chr, pair[1] - 1, pair[2] - 1)

\* a scan that takes the first VIP, wherever it sits
improveAnyVip(v, att, chr) ==
    SwapPair(chr, FirstOfEach({i \in 1 .. Len(att) : att[i].type = "vip"},
                              RegularsInVipSeats(v, att, chr)))

improveVipPlacement(v, att, chr) == SwapPair(chr, FirstVipSwap(v, att, chr))

\* the draws smartMutate consumes: a coin is tossed only when its score is low
SmartMutateDraws(fitness) ==
    (IF fitness.friendProximity < 700 THEN 1 ELSE 0)
      + (IF fitness.vipPlacement < 800 THEN 1 ELSE 0)

\* the second half of smartMutate, on the array left by the first half
SmartVipHalf(v, att, afterFriend, tossed, r) ==
    IF afterFriend = Throw THEN Throw
    ELSE IF tossed /\ r < 500 THEN improveVipPlacement(v, att, afterFriend)
    ELSE afterFriend

\* d = the coins, in the order in which they are tossed
smartMutate(v, att, chr, fitness, d) ==
    SmartVipHalf(v, att,
                 IF fitness.friendProximity < 700 /\ d[1] < 500
                 THEN improveFriendProximity(v, att, chr)
                 ELSE chr,
                 fitness.vipPlacement < 800,
                 d[IF fitness.friendProximity < 700 THEN 2 ELSE 1])

\* ------------------------------------------------------------------------
\* findWeakArea
\* ------------------------------------------------------------------------
InSeq(s, x) == \E k \in 1 .. Len(s) : s[k] = x

\* member (attendee index) has no other member of its group within distance 2
Isolated(v, chr, members, member) ==
    \A k \in 1 .. Len(members) :
        members[k] # member =>
            getSeatDistance(v, chr[member], chr[members[k]]) > 2

\* the candidates <<g, m, o, k>> (positions in the scan order) of the group
\* criterion: group g, isolated member m, other member o, adjacent outsider k
GroupCandidatesIn(v, att, chr, gs) ==
    {c \in (1 .. Len(gs)) \X (1 .. Len(att)) \X (1 .. Len(att)) \X (1 .. Len(att)) :
          /\ Len(gs[c[1]]) > 1
          /\ c[2] <= Len(gs[c[1]])
          /\ c[3] <= Len(gs[c[1]])
          /\ c[3] # c[2]
          /\ Isolated(v, chr, gs[c[1]], gs[c[1]][c[2]])
          /\ ~InSeq(gs[c[1]], c[4])
          /\ getSeatDistance(v, chr[gs[c[1]][c[3]]], chr[c[4]]) = 1}

GroupCandidates(v, att, chr) == GroupCandidatesIn(v, att, chr, Groups(att))

LexLess(a, b) ==
    \E k \in 1 .. 4 : a[k] < b[k] /\ \A j \in 1 .. k - 1 : a[j] = b[j]

\* the pair {idx1: member, idx2: outsider} of candidate c
CandidatePair(gs, c) == <<gs[c[1]][c[2]], c[4]>>

\* the candidate the nested scans reach first
FirstCandidate(gs, cands) ==
    IF cands = {} THEN Null
    ELSE CandidatePair(gs, CHOOSE x \in cands : \A y \in cands : x = y \/ LexLess(x, y))

WeakGroupPair(v, att, chr, fitness) ==
    IF fitness.groupCohesion < 700
    THEN FirstCandidate(Groups(att), GroupCandidates(v, att, chr))
    ELSE Null

OrElse(first, second) == IF first # Null THEN first ELSE second

\* a search that consults the group criterion first
findWeakAreaGroupFirst(v, att, chr, fitness) ==
    OrElse(WeakGroupPair(v, att, chr, fitness),
           IF fitness.vipPlacement < 800 THEN FirstVipSwap(v, att, chr) ELSE Null)

\* the result {idx1, idx2} as a pair of attendee indices, or Null
findWeakArea(v, att, chr, fitness) ==
    OrElse(IF fitness.vipPlacement < 800 THEN FirstVipSwap(v, att, chr) ELSE Null,
           WeakGroupPair(v, att, chr, fitness))

\* ------------------------------------------------------------------------
\* simulatedAnnealing
\* ------------------------------------------------------------------------
\* floor(Scale * exp(x)) for x = xs / Scale <= 0: halve the argument until it
\* is small, use 1 + x + x^2/2 + x^3/6 there, and square back
RECURSIVE ExpFix(_)
ExpFix(xs) ==
    IF xs >= 0 THEN Scale
    ELSE IF xs < -16 * Scale THEN 0
    ELSE IF xs < -(Scale \div 8)
         THEN LET h == ExpFix(xs \div 2) IN (h * h) \div Scale
    ELSE Scale + xs + (xs * xs) \div (2 * Scale)
           + (xs * xs * xs) \div (6 * Scale * Scale)

\* Math.random() < Math.exp(delta / temp); delta and temp are fixed point
Metropolis(r, delta, temp) == r < ExpFix((delta * Scale) \div temp)

\* the state of the loop before iteration 0
SAInitial(cfg, chr, f) ==
    [current |-> chr, currentFitness |-> f, best |-> chr, bestFitness |-> f,
     temp |-> cfg.initialTemp, i |-> 0]

SAStart(v, att, w, cfg, chr) == SAInitial(cfg, chr, calculateFitness(v, att, w, chr))

\* for (...; i < iterations && temp > minTemp; ...)
SAContinues(cfg, sa, iterations) == sa.i < iterations /\ sa.temp > cfg.minTemp

\* neighborFitness.total - currentFitness.total (NaN when either is NaN)
SADelta(neighborFitness, currentFitness) ==
    IF neighborFitness.total = NaN \/ currentFitness.total = NaN THEN NaN
    ELSE neighborFitness.total - currentFitness.total

\* delta > 0 || Math.random() < Math.exp(delta / temp)
SAAccepts(delta, temp, r) ==
    delta # NaN /\ (delta > 0 \/ Metropolis(r, delta, temp))

\* an iteration whose best follows every accepted neighbour
SAMoveLatest(cfg, sa, neighbor, neighborFitness, accept) ==
    [current |-> IF accept THEN neighbor ELSE sa.current,
     currentFitness |-> IF accept THEN neighborFitness ELSE sa.currentFitness,
     best |-> IF accept THEN neighbor ELSE sa.best,
     bestFitness |-> IF accept THEN neighborFitness ELSE sa.bestFitness,
     temp |-> (sa.temp * cfg.coolingRate) \div Scale,
     i |-> sa.i + 1]

\* the end of an iteration: current and best are replaced, the temperature
\* cools
SAMove(cfg, sa, neighbor, neighborFitness, accept) ==
    [current |-> IF accept THEN neighbor ELSE sa.current,
     currentFitness |-> IF accept THEN neighborFitness ELSE sa.currentFitness,
     best |-> IF accept /\ Gt(neighborFitness.total, sa.bestFitness.total)
              THEN neighbor ELSE sa.best,
     bestFitness |-> IF accept /\ Gt(neighborFitness.total, sa.bestFitness.total)
                     THEN neighborFitness ELSE sa.bestFitness,
     temp |-> (sa.temp * cfg.coolingRate) \div Scale,
     i |-> sa.i + 1]

\* the acceptance test; k is the position of its draw in d, which is not
\* drawn when delta > 0
SADecide(cfg, sa, d, k, neighbor, neighborFitness, delta) ==
    [threw |-> FALSE,
     next |-> SAMove(cfg, sa, neighbor, neighborFitness,
                     SAAccepts(delta, sa.temp, d[k])),
     draws |-> IF delta # NaN /\ delta > 0 THEN k - 1 ELSE k]

SAEvaluate(cfg, sa, d, k, neighbor, neighborFitness) ==
    SADecide(cfg, sa, d, k, neighbor, neighborFitness,
             SADelta(neighborFitness, sa.currentFitness))

\* the fitness of the neighbour; evaluating it throws when it seats an
\* attendee nowhere
SATry(v, att, w, cfg, sa, d, k, neighbor) ==
    IF ~CanEvaluate(v, att, neighbor) THEN [threw |-> TRUE, next |-> sa, draws |-> k - 1]
    ELSE SAEvaluate(cfg, sa, d, k, neighbor, calculateFitness(v, att, w, neighbor))

\* the neighbour: d[1] is the coin; the targeted swap of weakArea, or a
\* random swap, which draws two indices
SAWith(v, att, w, cfg, sa, d, weakArea) ==
    IF d[1] < 500 /\ weakArea # Null
    THEN SATry(v, att, w, cfg, sa, d, 2, SwapPair(sa.current, weakArea))
    ELSE SATry(v, att, w, cfg, sa, d, 4,
               SwapSeq(sa.current, FloorMul(d[2], Len(sa.current)),
                       FloorMul(d[3], Len(sa.current))))

\* one iteration on the draws d: [threw |-> whether it threw, next |-> the loop
\* state after it, draws |-> the number of draws it consumed]
SAStep(v, att, w, cfg, sa, d) ==
    SAWith(v, att, w, cfg, sa, d,
           IF d[1] < 500 THEN findWeakArea(v, att, sa.current, sa.currentFitness)
           ELSE Null)

\* ------------------------------------------------------------------------
\* optimize: helpers of the driver
\* ------------------------------------------------------------------------
\* population sorted by total, descending: Array.prototype.sort is stable and
\* takes a NaN result of the comparator as 0.  The result lists indices.
RECURSIVE InsertByTotal(_, _, _)
InsertByTotal(fitnessValues, s, x) ==
    IF s = <<>> THEN <<x>>
    ELSE IF Gt(fitnessValues[x].total, fitnessValues[Head(s)].total) THEN <<x>> \o s
    ELSE <<Head(s)>> \o InsertByTotal(fitnessValues, Tail(s), x)

RECURSIVE SortByTotalFrom(_, _, _)
SortByTotalFrom(fitnessValues, i, acc) ==
    IF i > Len(fitnessValues) THEN acc
    ELSE SortByTotalFrom(fitnessValues, i + 1, InsertByTotal(fitnessValues, acc, i))

SortByTotal(fitnessValues) == SortByTotalFrom(fitnessValues, 1, <<>>)

\* the scan for the best of the initial population (first of the largest)
RECURSIVE BestIdxFrom(_, _, _)
BestIdxFrom(fitnessValues, i, bestIdx) ==
    IF i > Len(fitnessValues) THEN bestIdx
    ELSE IF Gt(fitnessValues[i].total, fitnessValues[bestIdx].total)
         THEN BestIdxFrom(fitnessValues, i + 1, i)
    ELSE BestIdxFrom(fitnessValues, i + 1, bestIdx)

InitialBestIdx(fitnessValues) == BestIdxFrom(fitnessValues, 2, 1)

\* the update of the global best after a generation: <<solution, fitness>>
RECURSIVE UpdateBestFrom(_, _, _, _)
UpdateBestFrom(population, fitnessValues, i, best) ==
    IF i > Len(population) THEN best
    ELSE IF Gt(fitnessValues[i].total, best[2].total)
         THEN UpdateBestFrom(population, fitnessValues, i + 1,
                             <<population[i], fitnessValues[i]>>)
    ELSE UpdateBestFrom(population, fitnessValues, i + 1, best)

\* a global best that is replaced without the comparison
UpdateBestLast(population, fitnessValues, solution, fitness) ==
    <<population[Len(population)], fitnessValues[Len(population)]>>

UpdateBest(population, fitnessValues, solution, fitness) ==
    UpdateBestFrom(population, fitnessValues, 1, <<solution, fitness>>)

\* mode -> generations and SA iterations
TotalGenerations(cfg) ==
    IF cfg.mode = "fast" THEN 50
    ELSE IF cfg.mode = "thorough" THEN 500
    ELSE cfg.generations

SaIterations(cfg) ==
    IF cfg.mode = "fast" THEN 20
    ELSE IF cfg.mode = "thorough" THEN 200
    ELSE 100

\* Math.floor(populationSize * 0.2)
GreedyCount(cfg) == cfg.populationSize \div 5

\* if (!this.venue || this.attendees.length === 0) throw ...
NullVenue == [rows |-> 0, cols |-> 0, vipRows |-> 0]

\* an entry check that forgets the attendee list
EntryChecksVenueOnly(v, att) == v = NullVenue

EntryThrows(v, att) == v = NullVenue \/ Len(att) = 0

\* ------------------------------------------------------------------------
\* Inputs of the model
\* ------------------------------------------------------------------------
\* number of optimize() calls made on the instance
MaxCalls == 2

CallIds == 1 .. MaxCalls

Venues ==
    {[rows |-> 2, cols |-> 1, vipRows |-> 1]}

Vip(p) == [type |-> "vip", group |-> "", priority |-> p, preference |-> "any"]
Regular(p, g) == [type |-> "regular", group |-> g, priority |-> p, preference |-> "any"]

\* the lists passed to setAttendees (priority 0 stands for a missing priority)
AttendeeLists ==
    {<<>>,
     <<Regular(0, "")>>,
     <<Regular(3, ""), Vip(10)>>,
     <<Regular(5, "g"), Regular(5, "g"), Regular(3, "")>>}

\* the arguments of updateWeights
WeightInputs == {<<30, 25, 25, 20>>, <<0, 0, 0, 1>>, <<0, 0, 0, 0>>}

\* the configurations passed to the constructor (rates and temperatures are
\* fixed point); weights 30/25/25/20 over 100 are the defaults
DefaultWeights ==
    [friendProximity |-> 30, vipPlacement |-> 25, groupCohesion |-> 25,
     stageDistance |-> 20, den |-> 100]

Config(populationSize, generations, elitismCount) ==
    [populationSize |-> populationSize, generations |-> generations,
     mutationRate |-> 150, crossoverRate |-> 850,
     elitismCount |-> elitismCount, tournamentSize |-> 2,
     initialTemp |-> 4 * Scale, coolingRate |-> 500, minTemp |-> Scale,
     mode |-> "balanced", weights |-> DefaultWeights]

Configs == {Config(2, 2, 1)}

\* ------------------------------------------------------------------------
\* State
\* ------------------------------------------------------------------------
VARIABLES
    venue,              \* this.venue (NullVenue: null)
    attendees,          \* this.attendees
    config,             \* this.config
    currentGeneration,  \* this.currentGeneration
    bestSolution,       \* this.bestSolution (Null: null)
    bestFitness,        \* this.bestFitness
    fitnessHistory,     \* this.fitnessHistory
    isRunning,          \* this.isRunning
    calls,              \* the activation of each optimize() call: its position
                        \* and its local variables
    rng,                \* the source of Math.random()
    obs,                \* per call, what an observer of the run records
    returned,           \* the last call of a method made by the host on the
                        \* idle instance: its arguments and what it returned
    server              \* the Express server: the events file and the
                        \* requests to POST /api/events/:id/optimize in flight

instance ==
    <<venue, attendees, config, currentGeneration, bestSolution, bestFitness,
      fitnessHistory, isRunning>>

vars == <<venue, attendees, config, currentGeneration, bestSolution, bestFitness,
          fitnessHistory, isRunning, calls, rng, obs, returned, server>>

\* this.bestFitness = { total: 0 }
InitialFitness ==
    [total |-> 0, friendProximity |-> Undef, vipPlacement |-> Undef,
     groupCohesion |-> Undef, stageDistance |-> Undef]

NoSA ==
    [current |-> <<>>, currentFitness |-> InitialFitness, best |-> <<>>,
     bestFitness |-> InitialFitness, temp |-> 0, i |-> 0]

NoResult == [solution |-> Null, fitness |-> InitialFitness, history |-> <<>>]

\* an optimize() call that has not been made
IdleCall ==
    [pc |-> "idle", hasProgress |-> FALSE, totalGenerations |-> 0,
     saIterations |-> 0, population |-> <<>>, fitnessValues |-> <<>>, gen |-> 0,
     newPopulation |-> <<>>, p1 |-> <<>>, p2 |-> <<>>, c1 |-> <<>>, c2 |-> <<>>,
     work |-> ArrayObj(<<>>), ctx |-> "none", mutations |-> 0, sa |-> NoSA,
     result |-> NoResult]

NoObs ==
    [stopped |-> FALSE, generations |-> 0, annealed |-> FALSE,
     genBest |-> <<Null, InitialFitness>>,
     ownBest |-> <<Null, InitialFitness>>, ownHistory |-> <<>>,
     reports |-> <<>>, iterations |-> 0, initialTotal |-> Undef,
     stoppedBefore |-> FALSE]

\* no method was called yet
NoReturn == [op |-> "none"]

\* positions at which the JavaScript thread is free: the call has not started,
\* is suspended at its await, or has settled
SuspendedPcs == {"idle", "yield", "done", "rejected", "threw"}

Quiescent == \A c \in CallIds : calls[c].pc \in SuspendedPcs

Settled(c) == calls[c].pc \in {"done", "rejected", "threw"}

\* ------------------------------------------------------------------------
\* Math.random()
\* ------------------------------------------------------------------------
\* mode "free": every call returns any value of RandVals.
\* mode "cyclic": the calls return rng.seq[1], rng.seq[2], ... and start again
\* at the end; rng.pos counts the draws made.
FreeRng == [mode |-> "free", seq |-> <<>>, pos |-> 0]

\* the next k draws
Draws(k) ==
    IF rng.mode = "free" THEN [1 .. k -> RandVals]
    ELSE {[i \in 1 .. k |-> rng.seq[((rng.pos + i - 1) % Len(rng.seq)) + 1]]}

\* of the draws d enumerated for a step, those after the first n are not made
\* by the code: they are not enumerated
Unconsumed(d, n) ==
    rng.mode = "free" => \A i \in n + 1 .. Len(d) : d[i] = 0

\* the source after n draws
Consume(n) ==
    IF rng.mode = "free" THEN rng
    ELSE [rng EXCEPT !.pos = (rng.pos + n) % Len(rng.seq)]

\* ------------------------------------------------------------------------
\* Configuration (before the first optimize() call)
\* ------------------------------------------------------------------------
NoCallYet == \A c \in CallIds : calls[c].pc = "idle"

setVenue(v) ==
    /\ NoCallYet
    /\ venue' = v
    /\ UNCHANGED <<attendees, config, currentGeneration, bestSolution, bestFitness,
                   fitnessHistory, isRunning, calls, rng, obs, returned, server>>

setAttendees(list) ==
    /\ NoCallYet
    /\ attendees' = NormalizeAttendees(list)
    /\ UNCHANGED <<venue, config, currentGeneration, bestSolution, bestFitness,
                   fitnessHistory, isRunning, calls, rng, obs, returned, server>>

\* friend / total, ... : the numerators and the common denominator
NewWeights(friend, vip, group, distance) ==
    [friendProximity |-> friend, vipPlacement |-> vip, groupCohesion |-> group,
     stageDistance |-> distance, den |-> friend + vip + group + distance]

updateWeights(w) ==
    /\ NoCallYet
    /\ config' = [config EXCEPT !.weights = NewWeights(w[1], w[2], w[3], w[4])]
    /\ UNCHANGED <<venue, attendees, currentGeneration, bestSolution, bestFitness,
                   fitnessHistory, isRunning, calls, rng, obs, returned, server>>

\* ------------------------------------------------------------------------
\* optimize(): entry and initializePopulation
\* ------------------------------------------------------------------------
\* the locals of a call that has settled or left the loop are dead
Finished(rec, pc, result) ==
    [IdleCall EXCEPT !.pc = pc, !.result = result, !.hasProgress = rec.hasProgress]

\* an exception leaves optimize: the promise of the call is rejected
Thrown(rec) == Finished(rec, "threw", NoResult)

\* where initializePopulation goes on once the population holds
\* rec.population: the next greedy individual, a random one, or the end
AfterPush(rec) ==
    IF Len(rec.population) < GreedyCount(config)
    THEN [rec EXCEPT !.work = ArrayObj(generateGreedySolution(venue, attendees)),
                     !.ctx = "init", !.mutations = 0, !.pc = "mutate"]
    ELSE IF Len(rec.population) < config.populationSize
         THEN [rec EXCEPT !.work = ArrayObj(<<>>), !.ctx = "none", !.pc = "random"]
    ELSE [rec EXCEPT !.work = ArrayObj(<<>>), !.ctx = "none", !.pc = "initEval"]

\* the call is made while no other call is between two of its awaits
CanCall(c) ==
    /\ calls[c].pc = "idle"
    /\ \A b \in CallIds : b < c => calls[b].pc # "idle"
    /\ Quiescent

Enter(c, progressCallback) ==
    /\ CanCall(c)
    /\ IF EntryThrows(venue, attendees)
       THEN /\ calls' = [calls EXCEPT ![c].pc = "rejected"]
            /\ UNCHANGED <<isRunning, fitnessHistory, server>>
       ELSE /\ isRunning' = TRUE
            /\ fitnessHistory' = <<>>
            /\ calls' = [calls EXCEPT ![c] =
                           AfterPush([IdleCall EXCEPT
                                        !.hasProgress = progressCallback,
                                        !.totalGenerations = TotalGenerations(config),
                                        !.saIterations = SaIterations(config)])]
    /\ UNCHANGED <<venue, attendees, config, currentGeneration, bestSolution,
                   bestFitness, obs, returned, server>>

\* optimize(progressCallback): the entry of the call, up to the start of
\* initializePopulation
optimize(c, progressCallback) ==
    /\ Enter(c, progressCallback)
    /\ UNCHANGED <<rng, server>>

\* optimize() on a source of draws that starts its sequence again
replay(c) ==
    /\ rng.mode = "cyclic"
    /\ \A b \in CallIds : b < c => Settled(b)
    /\ Enter(c, FALSE)
    /\ rng' = [rng EXCEPT !.pos = 0]

\* where optimize goes on after a mutate call returned o
AfterMutate(rec, o) ==
    IF rec.ctx = "init"
    THEN IF rec.mutations + 1 < 5
         THEN [rec EXCEPT !.work = o, !.mutations = @ + 1, !.pc = "mutate"]
         ELSE AfterPush([rec EXCEPT !.population = Append(@, o.arr)])
    ELSE IF rec.ctx = "c1"
         THEN [rec EXCEPT !.c1 = o.arr, !.work = ArrayObj(rec.c2), !.ctx = "c2",
                          !.pc = "mutate"]
    ELSE [rec EXCEPT !.c2 = o.arr, !.work = ArrayObj(<<>>), !.ctx = "none",
                     !.pc = "smart"]

MutateSwaps(d) == d[1] < MutationRate(config, currentGeneration)

\* the swap of two random positions
MutateSwapped(o, d) ==
    ObjSwap(o, FloorMul(d[2], Len(o.arr)), FloorMul(d[3], Len(o.arr)))

\* mutate, up to the decision about the block swap (draws d[1] .. d[4])
mutateSwap(c) ==
    /\ calls[c].pc = "mutate"
    /\ \E d \in Draws(4) :
         IF ~MutateSwaps(d)
         THEN /\ Unconsumed(d, 1)
              /\ calls' = [calls EXCEPT ![c] = AfterMutate(calls[c], calls[c].work)]
              /\ rng' = Consume(1)
         ELSE /\ calls' = [calls EXCEPT ![c] =
                             IF d[4] < 300
                             THEN [calls[c] EXCEPT !.work = MutateSwapped(calls[c].work, d),
                                                   !.pc = "block"]
                             ELSE AfterMutate(calls[c], MutateSwapped(calls[c].work, d))]
              /\ rng' = Consume(4)
    /\ UNCHANGED <<instance, obs, returned, server>>

\* mutate: the block swap (draws len, start1, start2)
mutateBlock(c) ==
    /\ calls[c].pc = "block"
    /\ \E d \in Draws(3) :
         calls' = [calls EXCEPT ![c] = AfterMutate(calls[c], BlockSwap(calls[c].work, d))]
    /\ rng' = Consume(3)
    /\ UNCHANGED <<instance, obs, returned, server>>

\* population.push(this.generateRandomChromosome())
pushRandomChromosome(c) ==
    /\ calls[c].pc = "random"
    /\ \E d \in Draws(ShuffleDraws(TotalSeats(venue))) :
         calls' = [calls EXCEPT ![c] =
                     AfterPush([calls[c] EXCEPT !.population =
                                  Append(@, generateRandomChromosome(venue, attendees, d))])]
    /\ rng' = Consume(ShuffleDraws(TotalSeats(venue)))
    /\ UNCHANGED <<instance, obs, returned, server>>

AllEvaluate(population) ==
    \A i \in 1 .. Len(population) : CanEvaluate(venue, attendees, population[i])

FitnessOf(population) ==
    [i \in 1 .. Len(population) |->
       calculateFitness(venue, attendees, config.weights, population[i])]

\* the first evaluation and the initial global best
evaluateInitial(c) ==
    /\ calls[c].pc = "initEval"
    /\ IF ~AllEvaluate(calls[c].population)
       THEN /\ calls' = [calls EXCEPT ![c] = Thrown(calls[c])]
            /\ UNCHANGED <<bestSolution, bestFitness, obs, server>>
       ELSE LET fitnessValues == FitnessOf(calls[c].population)
                bestIdx == InitialBestIdx(fitnessValues)
            IN /\ bestSolution' = calls[c].population[bestIdx]
               /\ bestFitness' = fitnessValues[bestIdx]
               /\ calls' = [calls EXCEPT ![c].fitnessValues = fitnessValues,
                                         ![c].gen = 0, ![c].pc = "loop"]
               /\ obs' = [obs EXCEPT ![c].ownBest =
                            <<calls[c].population[bestIdx], fitnessValues[bestIdx]>>,
                                     ![c].initialTotal = fitnessValues[bestIdx].total]
    /\ UNCHANGED <<venue, attendees, config, currentGeneration, fitnessHistory,
                   isRunning, rng, returned, server>>

\* ------------------------------------------------------------------------
\* optimize(): the generation loop
\* ------------------------------------------------------------------------
\* this.isRunning = false; completeCallback; return
Return(c, solution, fitness) ==
    /\ isRunning' = FALSE
    /\ calls' = [calls EXCEPT ![c] =
                   Finished(calls[c], "done",
                            [solution |-> solution, fitness |-> fitness,
                             history |-> fitnessHistory])]

\* elites taken from the head of the population as it stands, unsorted
ElitesUnsorted(rec) == [i \in 1 .. config.elitismCount |-> rec.population[i]]

\* the elites: copies of the first elitismCount entries of the sorted population
Elites(rec) ==
    LET sorted == SortByTotal(rec.fitnessValues)
    IN [i \in 1 .. config.elitismCount |-> rec.population[sorted[i]]]

\* a loop condition that does not read the flag
LoopIgnoresStop(rec) == rec.gen < rec.totalGenerations

\* the loop condition of the generation loop
LoopContinues(rec) == rec.gen < rec.totalGenerations /\ isRunning

\* a refinement that does not read the flag
RunsSAAlways(running) == TRUE

\* if (this.isRunning) after the loop
RunsSA(running) == running

\* where the generation goes on once newPopulation holds rec.newPopulation
AfterAppend(rec) ==
    IF Len(rec.newPopulation) < config.populationSize
    THEN [rec EXCEPT !.pc = "select1"]
    ELSE [rec EXCEPT !.pc = "evaluate"]

\* the loop test; then either the start of a generation (sort, elitism), or
\* the code after the loop up to the start of simulatedAnnealing, or the return
loopHead(c) ==
    /\ calls[c].pc = "loop"
    /\ LET rec == calls[c]
       IN IF LoopContinues(rec)
          THEN /\ currentGeneration' = rec.gen
               /\ IF config.elitismCount > Len(rec.population)
                  THEN calls' = [calls EXCEPT ![c] = Thrown(calls[c])]
                  ELSE calls' = [calls EXCEPT ![c] =
                                   AfterAppend([rec EXCEPT !.newPopulation = Elites(rec)])]
               /\ obs' = [obs EXCEPT ![c].generations = @ + 1]
               /\ UNCHANGED <<isRunning, server>>
          ELSE IF RunsSA(isRunning)
               THEN /\ IF CanEvaluate(venue, attendees, bestSolution)
                       THEN calls' = [calls EXCEPT ![c].sa =
                                        SAStart(venue, attendees, config.weights,
                                                config, bestSolution),
                                      ![c].pc = "sa"]
                       ELSE calls' = [calls EXCEPT ![c] = Thrown(calls[c])]
                    /\ obs' = [obs EXCEPT ![c].annealed = TRUE]
                    /\ UNCHANGED <<currentGeneration, isRunning, server>>
          ELSE /\ Return(c, bestSolution, bestFitness)
               /\ UNCHANGED <<currentGeneration, obs, server>>
    /\ UNCHANGED <<venue, attendees, config, bestSolution, bestFitness,
                   fitnessHistory, rng, returned, server>>

\* const p1 = this.tournamentSelect(population, fitnessValues)
selectParent1(c) ==
    /\ calls[c].pc = "select1"
    /\ \E d \in Draws(config.tournamentSize) :
         LET best == tournamentSelect(calls[c].fitnessValues, d)
         IN IF best = 0
            THEN calls' = [calls EXCEPT ![c] = Thrown(calls[c])]
            ELSE calls' = [calls EXCEPT ![c].p1 = calls[c].population[best],
                                        ![c].pc = "select2"]
    /\ rng' = Consume(config.tournamentSize)
    /\ UNCHANGED <<instance, obs, returned, server>>

\* const p2 = this.tournamentSelect(population, fitnessValues)
selectParent2(c) ==
    /\ calls[c].pc = "select2"
    /\ \E d \in Draws(config.tournamentSize) :
         LET best == tournamentSelect(calls[c].fitnessValues, d)
         IN IF best = 0
            THEN calls' = [calls EXCEPT ![c] = Thrown(calls[c])]
            ELSE calls' = [calls EXCEPT ![c].p2 = calls[c].population[best],
                                        ![c].pc = "crossover"]
    /\ rng' = Consume(config.tournamentSize)
    /\ UNCHANGED <<instance, obs, returned, server>>

\* the call once crossover returned children
AfterCrossover(rec, children) ==
    IF children[1] = Hang \/ children[2] = Hang THEN [rec EXCEPT !.pc = "hung"]
    ELSE [rec EXCEPT !.p1 = <<>>, !.p2 = <<>>,
                     !.c1 = children[1], !.c2 = children[2],
                     !.work = ArrayObj(children[1]), !.ctx = "c1", !.pc = "mutate"]

\* let [c1, c2] = this.crossover(p1, p2); a fill loop that never ends leaves
\* the call, and the thread, in the loop
crossoverStep(c) ==
    /\ calls[c].pc = "crossover"
    /\ \E d \in Draws(3) :
         /\ Unconsumed(d, CrossoverDraws(config, d[1]))
         /\ calls' = [calls EXCEPT ![c] =
                        AfterCrossover(calls[c],
                                       crossover(config, calls[c].p1, calls[c].p2, d))]
         /\ rng' = Consume(CrossoverDraws(config, d[1]))
    /\ UNCHANGED <<instance, obs, returned, server>>

\* a second child that is appended whatever the length
SecondChildAlways(newPopulation) == TRUE

\* if (newPopulation.length < this.config.populationSize)
SecondChildFits(newPopulation) == Len(newPopulation) < config.populationSize

\* newPopulation.push(c1); if (newPopulation.length < populationSize) push(c2)
PushChildren(rec, c1, c2) ==
    LET one == Append(rec.newPopulation, c1)
        both == IF SecondChildFits(one) THEN Append(one, c2) ELSE one
    IN AfterAppend([rec EXCEPT !.newPopulation = both, !.c1 = <<>>, !.c2 = <<>>])

\* the call once smartMutate returned mutated
AfterSmart(rec, mutated) ==
    IF mutated = Throw THEN Thrown(rec) ELSE PushChildren(rec, mutated, rec.c2)

\* c1 = this.smartMutate(c1, fitness) on the coins d[2], d[3]
SmartOn(c, d, fitness) ==
    /\ Unconsumed(d, 1 + SmartMutateDraws(fitness))
    /\ calls' = [calls EXCEPT ![c] =
                   AfterSmart(calls[c],
                              smartMutate(venue, attendees, calls[c].c1, fitness,
                                          <<d[2], d[3]>>))]
    /\ rng' = Consume(1 + SmartMutateDraws(fitness))

\* if (Math.random() < 0.3) c1 = this.smartMutate(c1, this.calculateFitness(c1)),
\* and the two pushes
smartStep(c) ==
    /\ calls[c].pc = "smart"
    /\ \E d \in Draws(3) :
         IF d[1] >= 300
         THEN /\ Unconsumed(d, 1)
              /\ calls' = [calls EXCEPT ![c] =
                             PushChildren(calls[c], calls[c].c1, calls[c].c2)]
              /\ rng' = Consume(1)
         ELSE IF ~CanEvaluate(venue, attendees, calls[c].c1)
              THEN /\ Unconsumed(d, 1)
                   /\ calls' = [calls EXCEPT ![c] = Thrown(calls[c])]
                   /\ rng' = Consume(1)
         ELSE SmartOn(c, d, calculateFitness(venue, attendees, config.weights,
                                             calls[c].c1))
    /\ UNCHANGED <<instance, obs, returned, server>>

\* a progress that counts the generations before this one
ProgressBefore(gen, totalGenerations) == (gen * Scale) \div totalGenerations

\* progress: (gen + 1) / totalGenerations
Progress(gen, totalGenerations) == ((gen + 1) * Scale) \div totalGenerations

\* the argument of progressCallback
ProgressReport(rec, fitness) ==
    [generation |-> rec.gen, totalGenerations |-> rec.totalGenerations,
     bestFitness |-> fitness, progress |-> Progress(rec.gen, rec.totalGenerations)]

\* the end of a generation: the new population is evaluated, the global best
\* updated and recorded, the progress callback called (it may call stop()),
\* and every fifth generation the call awaits a timer
evaluateGeneration(c) ==
    /\ calls[c].pc = "evaluate"
    /\ LET rec == calls[c]
           population == rec.newPopulation
       IN IF ~AllEvaluate(population)
          THEN /\ calls' = [calls EXCEPT ![c] = Thrown(calls[c])]
               /\ UNCHANGED <<bestSolution, bestFitness, fitnessHistory, isRunning, obs, server>>
          ELSE LET fitnessValues == FitnessOf(population)
                   best == UpdateBest(population, fitnessValues, bestSolution, bestFitness)
                   own == UpdateBest(population, fitnessValues,
                                     obs[c].ownBest[1], obs[c].ownBest[2])
               IN /\ bestSolution' = best[1]
                  /\ bestFitness' = best[2]
                  /\ fitnessHistory' = Append(fitnessHistory, best[2].total)
                  /\ \E stops \in BOOLEAN :
                       /\ stops => rec.hasProgress
                       /\ isRunning' = IF stops THEN FALSE ELSE isRunning
                       /\ obs' = [obs EXCEPT ![c].stopped = @ \/ stops,
                                             ![c].genBest = best,
                                             ![c].ownBest = own,
                                             ![c].ownHistory = Append(@, own[2].total),
                                             ![c].reports =
                                                IF rec.hasProgress
                                                THEN Append(@, ProgressReport(rec, best[2]))
                                                ELSE @]
                  /\ calls' = [calls EXCEPT ![c] =
                                 [rec EXCEPT !.population = population,
                                             !.fitnessValues = fitnessValues,
                                             !.newPopulation = <<>>,
                                             !.gen = IF rec.gen % 5 = 0 THEN @ ELSE @ + 1,
                                             !.pc = IF rec.gen % 5 = 0 THEN "yield"
                                                    ELSE "loop"]]
    /\ UNCHANGED <<venue, attendees, config, currentGeneration, rng, returned, server>>

\* the timer of the await fires: gen++ and back to the loop test
resume(c) ==
    /\ calls[c].pc = "yield"
    /\ Quiescent
    /\ calls' = [calls EXCEPT ![c].gen = @ + 1, ![c].pc = "loop"]
    /\ UNCHANGED <<instance, rng, obs, returned, server>>

\* the call after an iteration of simulatedAnnealing with outcome out
AfterAnneal(c, d, out) ==
    /\ Unconsumed(d, out.draws)
    /\ calls' = [calls EXCEPT ![c] =
                   IF out.threw THEN Thrown(calls[c])
                   ELSE [calls[c] EXCEPT !.sa = out.next]]
    /\ rng' = Consume(out.draws)

\* a refinement that stores the last solution of the annealing with the
\* fitness of its best
ReturnBetterCurrent(c, improved, sa) ==
    /\ bestSolution' = IF improved THEN sa.current ELSE bestSolution
    /\ bestFitness' = IF improved THEN sa.bestFitness ELSE bestFitness
    /\ Return(c, IF improved THEN sa.current ELSE bestSolution,
              IF improved THEN sa.bestFitness ELSE bestFitness)

\* const optimized = this.simulatedAnnealing(...); the comparison with the
\* global best; the return
ReturnBetter(c, improved, sa) ==
    /\ bestSolution' = IF improved THEN sa.best ELSE bestSolution
    /\ bestFitness' = IF improved THEN sa.bestFitness ELSE bestFitness
    /\ Return(c, IF improved THEN sa.best ELSE bestSolution,
              IF improved THEN sa.bestFitness ELSE bestFitness)

\* one iteration of simulatedAnnealing, or its return and the rest of optimize
annealStep(c) ==
    /\ calls[c].pc = "sa"
    /\ IF SAContinues(config, calls[c].sa, calls[c].saIterations)
       THEN /\ \E d \in Draws(4) :
                 AfterAnneal(c, d, SAStep(venue, attendees, config.weights, config,
                                       calls[c].sa, d))
            /\ obs' = [obs EXCEPT ![c].iterations = @ + 1]
            /\ UNCHANGED <<bestSolution, bestFitness, isRunning, server>>
       ELSE /\ ReturnBetter(c, Gt(calls[c].sa.bestFitness.total, bestFitness.total),
                            calls[c].sa)
            /\ UNCHANGED <<rng, obs, server>>
    /\ UNCHANGED <<venue, attendees, config, currentGeneration, fitnessHistory,
                   returned, server>>

\* stop(), called by the host while the thread is free
stop ==
    /\ Quiescent
    /\ isRunning' = FALSE
    /\ obs' = [c \in CallIds |->
                 IF calls[c].pc = "yield" THEN [obs[c] EXCEPT !.stopped = TRUE]
                 ELSE IF calls[c].pc = "idle"
                      THEN [obs[c] EXCEPT !.stoppedBefore = TRUE]
                 ELSE obs[c]]
    /\ UNCHANGED <<venue, attendees, config, currentGeneration, bestSolution,
                   bestFitness, fitnessHistory, calls, rng, returned, server>>

\* ------------------------------------------------------------------------
\* Methods called by the host on the idle instance
\* ------------------------------------------------------------------------
\* The methods below read the instance and leave it as it is, so what a call
\* returns does not depend on the calls before it: the first call is modelled.
FirstCall == NoCallYet /\ returned = NoReturn

\* the seat of a plan entry (the labels are the character code and the number)
PlanSeat(seat) ==
    [row |-> seat.row, col |-> seat.col, rowLabel |-> 65 + seat.row,
     seatNumber |-> seat.col + 1, isVip |-> seat.isVip]

\* the plan of chromosome; reading seat.row throws where chromosome[idx] is no
\* seat
PlanOf(v, att, chromosome) ==
    IF ~CanEvaluate(v, att, chromosome) THEN [kind |-> "throw", entries |-> <<>>]
    ELSE [kind |-> "plan",
          entries |-> [i \in 1 .. Len(att) |->
                         [attendee |-> att[i],
                          seat |-> PlanSeat(Seats(v)[chromosome[i] + 1])]]]

\* getSeatingPlan(solution): solution || this.bestSolution, null without either
getSeatingPlan(solution) ==
    /\ FirstCall
    /\ returned' =
         [op |-> "getSeatingPlan", solution |-> solution,
          result |-> IF solution # Null THEN PlanOf(venue, attendees, solution)
                     ELSE IF bestSolution # Null
                          THEN PlanOf(venue, attendees, bestSolution)
                     ELSE [kind |-> "null", entries |-> <<>>]]
    /\ UNCHANGED <<instance, calls, rng, obs, server>>

\* calculateFitness(chromosome), called with an assignment
fitnessCall(chromosome) ==
    /\ FirstCall
    /\ CanEvaluate(venue, attendees, chromosome)
    /\ returned' =
         [op |-> "calculateFitness", chromosome |-> chromosome,
          result |-> calculateFitness(venue, attendees, config.weights, chromosome)]
    /\ UNCHANGED <<instance, calls, rng, obs, server>>

\* the number of draws mutate makes on d
MutateDraws(d) ==
    IF d[1] >= MutationRate(config, currentGeneration) THEN 1
    ELSE IF d[4] >= 300 THEN 4 ELSE 7

\* mutate(chromosome), Math.random() returning d[1], d[2], ...
mutateCall(chromosome, d) ==
    /\ FirstCall
    /\ \A i \in MutateDraws(d) + 1 .. Len(d) : d[i] = 0
    /\ returned' =
         [op |-> "mutate", chromosome |-> chromosome, draws |-> d,
          result |-> mutate(config, currentGeneration, ArrayObj(chromosome), d)]
    /\ UNCHANGED <<instance, calls, rng, obs, server>>

\* crossover(parent1, parent2), Math.random() returning d[1], d[2], d[3]
crossoverCall(parent1, parent2, d) ==
    /\ FirstCall
    /\ \A i \in CrossoverDraws(config, d[1]) + 1 .. Len(d) : d[i] = 0
    /\ returned' =
         [op |-> "crossover", parent1 |-> parent1, parent2 |-> parent2, draws |-> d,
          result |-> crossover(config, parent1, parent2, d)]
    /\ UNCHANGED <<instance, calls, rng, obs, server>>

\* smartMutate(chromosome, this.calculateFitness(chromosome)), as optimize
\* calls it, Math.random() returning d[1], d[2]
smartMutateCall(chromosome, d) ==
    /\ FirstCall
    /\ CanEvaluate(venue, attendees, chromosome)
    /\ LET fitness == calculateFitness(venue, attendees, config.weights, chromosome)
       IN /\ \A i \in SmartMutateDraws(fitness) + 1 .. Len(d) : d[i] = 0
          /\ returned' =
               [op |-> "smartMutate", chromosome |-> chromosome,
                fitness |-> fitness, draws |-> d,
                result |-> smartMutate(venue, attendees, chromosome, fitness, d)]
    /\ UNCHANGED <<instance, calls, rng, obs, server>>

\* improveFriendProximity(chromosome): result is the array after the call
improveFriendProximityCall(chromosome) ==
    /\ FirstCall
    /\ CanEvaluate(venue, attendees, chromosome)
    /\ returned' =
         [op |-> "improveFriendProximity", chromosome |-> chromosome,
          result |-> improveFriendProximity(venue, attendees, chromosome)]
    /\ UNCHANGED <<instance, calls, rng, obs, server>>

\* improveVipPlacement(chromosome): result is the array after the call
improveVipPlacementCall(chromosome) ==
    /\ FirstCall
    /\ CanEvaluate(venue, attendees, chromosome)
    /\ returned' =
         [op |-> "improveVipPlacement", chromosome |-> chromosome,
          result |-> improveVipPlacement(venue, attendees, chromosome)]
    /\ UNCHANGED <<instance, calls, rng, obs, server>>

\* findWeakArea(chromosome, this.calculateFitness(chromosome)), as
\* simulatedAnnealing calls it
findWeakAreaCall(chromosome) ==
    /\ FirstCall
    /\ CanEvaluate(venue, attendees, chromosome)
    /\ LET fitness == calculateFitness(venue, attendees, config.weights, chromosome)
       IN returned' =
            [op |-> "findWeakArea", chromosome |-> chromosome, fitness |-> fitness,
             result |-> findWeakArea(venue, attendees, chromosome, fitness)]
    /\ UNCHANGED <<instance, calls, rng, obs, server>>

\* ------------------------------------------------------------------------
\* The Express server: events.json and the routes that rewrite it. Every
\* route reads the whole file (loadEvents), changes the object it read and
\* writes the whole object back (saveEvents). Timestamps are left out.
\* ------------------------------------------------------------------------
\* the ids uuidv4() gives to the events created
EventIds == {"e1", "e2"}
\* the ids of the attendees the clients send
AttendeeIds == {"a", "b"}
\* the request to POST /api/events/:id/optimize that is followed from its
\* arrival to its answer
RequestIds == {"r1"}
\* the venue the clients configure: one seat
Hall == [rows |-> 1, cols |-> 1, vipRows |-> 1]

\* seatingPlan: null
NoPlan == [kind |-> "null", entries |-> <<>>]

\* a request that has not arrived
NoRequest ==
    [pc |-> "idle", status |-> 0, data |-> <<>>, eventIndex |-> -1,
     fails |-> FALSE, solution |-> <<>>]

\* an empty events.json and no request in flight
ServerStart ==
    [store |-> <<>>, issued |-> {}, requests |-> [r \in RequestIds |-> NoRequest]]

\* data.events.findIndex(e => e.id === id), 1-based; -1 when there is none
RECURSIVE FindFrom(_, _, _)
FindFrom(list, id, i) ==
    IF i > Len(list) THEN -1
    ELSE IF list[i].id = id THEN i
    ELSE FindFrom(list, id, i + 1)

findIndex(list, id) == FindFrom(list, id, 1)

\* list.splice(i, 1)
splice(list, i) == SubSeq(list, 1, i - 1) \o SubSeq(list, i + 1, Len(list))

\* saveEvents(data) from a route that needs no other variable of the server
saveEvents(data) == server' = [server EXCEPT !.store = data]

\* POST /api/events with { name, venue }: a new event is pushed
createEvent(id, name, v) ==
    /\ id \notin server.issued
    /\ LET event == [id |-> id, name |-> name, venue |-> v, attendees |-> <<>>,
                     seatingPlan |-> NoPlan, optimizationHistory |-> <<>>]
       IN server' = [server EXCEPT !.store = Append(server.store, event),
                                   !.issued = server.issued \cup {id}]
    /\ UNCHANGED <<instance, calls, rng, obs, returned>>

\* PUT /api/events/:id with { name, venue }; an empty name and a null venue
\* leave the field as it is; 404 when the event is not in the file
updateEvent(id, name, v) ==
    /\ LET data == server.store
           eventIndex == findIndex(data, id)
       IN IF eventIndex = -1 THEN UNCHANGED server
          ELSE saveEvents([data EXCEPT
                 ![eventIndex].name = IF name # "" THEN name ELSE @,
                 ![eventIndex].venue = IF v # NullVenue THEN v ELSE @])
    /\ UNCHANGED <<instance, calls, rng, obs, returned>>

\* DELETE /api/events/:id
deleteEvent(id) ==
    /\ LET data == server.store
           eventIndex == findIndex(data, id)
       IN IF eventIndex = -1 THEN UNCHANGED server
          ELSE saveEvents(splice(data, eventIndex))
    /\ UNCHANGED <<instance, calls, rng, obs, returned>>

\* POST /api/events/:id/attendees with one attendee the event does not have
addAttendees(id, a) ==
    /\ LET data == server.store
           eventIndex == findIndex(data, id)
       IN IF eventIndex = -1 THEN UNCHANGED server
          ELSE /\ \A i \in 1..Len(data[eventIndex].attendees) :
                     data[eventIndex].attendees[i].id # a
               /\ saveEvents([data EXCEPT
                      ![eventIndex].attendees = Append(@, [id |-> a])])
    /\ UNCHANGED <<instance, calls, rng, obs, returned>>

\* DELETE /api/events/:id/attendees/:attendeeId
removeAttendee(id, a) ==
    /\ LET data == server.store
           eventIndex == findIndex(data, id)
       IN IF eventIndex = -1 THEN UNCHANGED server
          ELSE LET attendeeIndex == findIndex(data[eventIndex].attendees, a)
               IN IF attendeeIndex = -1 THEN UNCHANGED server
                  ELSE saveEvents([data EXCEPT
                         ![eventIndex].attendees = splice(@, attendeeIndex)])
    /\ UNCHANGED <<instance, calls, rng, obs, returned>>

\* the assignments optimize() of the server's optimizer can return for n
\* attendees: n different seats, which ones depending on Math.random()
ServerSolutions(v, n) ==
    {s \in [1..n -> 0..(TotalSeats(v) - 1)] :
        \A i \in 1..n : \A j \in 1..n : i # j => s[i] # s[j]}

\* optimizer.getSeatingPlan(result.solution) of the server's optimizer
ServerPlan(v, list, solution) ==
    [kind |-> "plan",
     entries |-> [i \in 1..Len(list) |->
                    [attendee |-> list[i], seat |-> Seats(v)[solution[i] + 1]]]]

\* POST /api/events/:id/optimize up to its await: the file is read, the
\* request is checked (404, 400), the optimizer is built and optimize() runs
\* to its end, since the server's optimize() awaits nothing. With more
\* attendees than seats the assignment has no seat for some attendee and the
\* request ends in the catch block
optimizeBegin(r, id) ==
    /\ server.requests[r].pc = "idle"
    /\ LET data == server.store
           eventIndex == findIndex(data, id)
           answer(status) ==
               server' = [server EXCEPT !.requests[r].pc = "done",
                                        !.requests[r].status = status]
       IN IF eventIndex = -1 THEN answer(404)
          ELSE LET event == data[eventIndex]
                   n == Len(event.attendees)
               IN IF event.venue = NullVenue \/ n = 0 THEN answer(400)
                  ELSE \E solution \in
                         IF n > TotalSeats(event.venue) THEN {<<>>}
                         ELSE ServerSolutions(event.venue, n) :
                         server' = [server EXCEPT !.requests[r] =
                             [pc |-> "awaiting", status |-> 0, data |-> data,
                              eventIndex |-> eventIndex,
                              fails |-> n > TotalSeats(event.venue),
                              solution |-> solution]]
    /\ UNCHANGED <<instance, calls, rng, obs, returned>>

\* the object the optimize route saves: the object it read before the await,
\* with the results written into its event
DataWithResults(data, eventIndex, solution) ==
    LET event == data[eventIndex]
    IN [data EXCEPT
          ![eventIndex].seatingPlan =
              ServerPlan(event.venue, event.attendees, solution),
          ![eventIndex].optimizationHistory = Append(@, solution)]

\* POST /api/events/:id/optimize after its await: the plan is made, the
\* results are written into the object read before the await and that object
\* is saved; 500 without a save when the optimizer or the plan threw
optimizeSave(r) ==
    /\ server.requests[r].pc = "awaiting"
    /\ LET req == server.requests[r]
       IN IF req.fails
          THEN server' = [server EXCEPT !.requests[r].pc = "done",
                                        !.requests[r].status = 500]
          ELSE server' = [server EXCEPT
                 !.store = DataWithResults(req.data, req.eventIndex, req.solution),
                 !.requests[r].pc = "done",
                 !.requests[r].status = 200]
    /\ UNCHANGED <<instance, calls, rng, obs, returned>>

\* ------------------------------------------------------------------------
\* Specifications
\* ------------------------------------------------------------------------
\* the instance after new SeatOptimizer(cfg), with Math.random as source rnd
Constructed(cfg, rnd) ==
    /\ venue = NullVenue
    /\ attendees = <<>>
    /\ config = cfg
    /\ currentGeneration = 0
    /\ bestSolution = Null
    /\ bestFitness = InitialFitness
    /\ fitnessHistory = <<>>
    /\ isRunning = FALSE
    /\ calls = [c \in CallIds |-> IdleCall]
    /\ rng = rnd
    /\ obs = [c \in CallIds |-> NoObs]
    /\ returned = NoReturn
    /\ server = ServerStart

\* the instance after setVenue(v) and setAttendees(list)
Prepared(cfg, rnd, v, list) ==
    /\ venue = v
    /\ attendees = NormalizeAttendees(list)
    /\ config = cfg
    /\ currentGeneration = 0
    /\ bestSolution = Null
    /\ bestFitness = InitialFitness
    /\ fitnessHistory = <<>>
    /\ isRunning = FALSE
    /\ calls = [c \in CallIds |-> IdleCall]
    /\ rng = rnd
    /\ obs = [c \in CallIds |-> NoObs]
    /\ returned = NoReturn
    /\ server = ServerStart

Init == \E cfg \in Configs : Constructed(cfg, FreeRng)

PositiveWeightInputs == {w \in WeightInputs : w[1] + w[2] + w[3] + w[4] > 0}

\* the steps of a call once it is made, without the breeding of children
RunStep(c) ==
    \/ pushRandomChromosome(c)
    \/ evaluateInitial(c)
    \/ loopHead(c)
    \/ evaluateGeneration(c)
    \/ resume(c)
    \/ annealStep(c)

\* the breeding of children
BreedStep(c) ==
    \/ selectParent1(c)
    \/ selectParent2(c)
    \/ crossoverStep(c)
    \/ smartStep(c)

\* mutate
MutateStep(c) ==
    \/ mutateSwap(c)
    \/ mutateBlock(c)

\* the optimizer used as documented: at least one positive weight, and one
\* optimize() call on the instance
Next ==
    \/ \E v \in Venues : setVenue(v)
    \/ \E list \in AttendeeLists : setAttendees(list)
    \/ \E w \in PositiveWeightInputs : updateWeights(w)
    \/ \E cb \in BOOLEAN : optimize(1, cb)
    \/ RunStep(1)
    \/ BreedStep(1)
    \/ MutateStep(1)
    \/ stop

Spec == Init /\ [][Next]_vars

\* ------------------------------------------------------------------------
\* Any weights, all four zero included
\* ------------------------------------------------------------------------
WeightsVenue == [rows |-> 2, cols |-> 1, vipRows |-> 1]

WeightsAttendees == <<Regular(3, ""), Vip(10)>>

InitWeights ==
    \E cfg \in Configs : Prepared(cfg, FreeRng, WeightsVenue, WeightsAttendees)

NextWeights ==
    \/ \E w \in WeightInputs : updateWeights(w)
    \/ \E cb \in BOOLEAN : optimize(1, cb)
    \/ RunStep(1)
    \/ BreedStep(1)
    \/ MutateStep(1)
    \/ stop

SpecWeights == InitWeights /\ [][NextWeights]_vars

\* ------------------------------------------------------------------------
\* Two optimize() calls that overlap at their awaits
\* ------------------------------------------------------------------------
\* one individual, which is the elite: no children are bred
OverlapConfigs == {Config(1, 2, 1)}

InitOverlap ==
    \E cfg \in OverlapConfigs :
       Prepared(cfg, FreeRng, WeightsVenue, WeightsAttendees)

NextOverlap ==
    \/ \E c \in CallIds, cb \in BOOLEAN : optimize(c, cb)
    \/ \E c \in CallIds : RunStep(c)
    \/ stop

SpecOverlap == InitOverlap /\ [][NextOverlap]_vars

\* ------------------------------------------------------------------------
\* Two consecutive optimize() calls that are given the same draws
\* ------------------------------------------------------------------------
\* five individuals, one of them greedy, all of them elites
ReplayConfigs == {Config(5, 2, 5)}

\* the periodic sequences of draws
ReplayLen == 4

ReplaySeqs == [1 .. ReplayLen -> {0, 295, 999}]

InitReplay ==
    \E cfg \in ReplayConfigs, seq \in ReplaySeqs :
       Prepared(cfg, [mode |-> "cyclic", seq |-> seq, pos |-> 0],
                WeightsVenue, WeightsAttendees)

NextReplay ==
    \/ \E c \in CallIds : replay(c)
    \/ \E c \in CallIds : RunStep(c)
    \/ \E c \in CallIds : MutateStep(c)

SpecReplay == InitReplay /\ [][NextReplay]_vars

\* ------------------------------------------------------------------------
\* Population sizes and elitism counts
\* ------------------------------------------------------------------------
\* one individual; an odd and an even number of places for children; more
\* elites than individuals; five individuals, one of them greedy
PopulationConfigs ==
    {Config(1, 1, 1), Config(2, 1, 1), Config(3, 1, 1), Config(2, 1, 3),
     Config(5, 1, 5)}

InitPopulation ==
    \E cfg \in PopulationConfigs :
       Prepared(cfg, FreeRng, WeightsVenue, WeightsAttendees)

NextPopulation ==
    \/ optimize(1, FALSE)
    \/ RunStep(1)
    \/ BreedStep(1)
    \/ MutateStep(1)

SpecPopulation == InitPopulation /\ [][NextPopulation]_vars

\* ------------------------------------------------------------------------
\* The methods of a prepared instance, called one at a time
\* ------------------------------------------------------------------------
MethodVenues == {[rows |-> 2, cols |-> 2, vipRows |-> 1]}

VipIn(p, g) == [type |-> "vip", group |-> g, priority |-> p, preference |-> "any"]

\* one attendee without priority; a regular and a VIP; three who share one
\* group; four with a group of two and a group of one
MethodLists ==
    {<<Regular(0, "")>>,
     <<Regular(3, ""), Vip(10)>>,
     <<Regular(5, "g"), Regular(1, "g"), VipIn(10, "g")>>,
     <<Regular(5, "g"), Regular(5, "h"), Regular(10, "g"), Vip(1)>>}

\* non-negative weights with a positive sum
MethodWeights == {<<30, 25, 25, 20>>, <<0, 0, 0, 1>>, <<1, 0, 2, 0>>}

\* the assignments of n attendees to pairwise-distinct seats of v
Assignments(v, n) ==
    {chr \in [1 .. n -> 0 .. TotalSeats(v) - 1] :
        \A i, j \in 1 .. n : i # j => chr[i] # chr[j]}

\* the draws of mutate: the rate test, the two positions, the coin, the block
\* length (2 .. 6) and the two starts
MutateInputs ==
    {<<r1, r2, r3, r4, r5, r6, r7>> :
        r1 \in {0, 999}, r2 \in {0, 999}, r3 \in {0, 999}, r4 \in {0, 999},
        r5 \in {0, 200, 400, 600, 800}, r6 \in {0, 500, 999}, r7 \in {0, 500, 999}}

\* the draws of crossover: the rate test, start and end
CrossoverInputs ==
    {<<r1, r2, r3>> :
        r1 \in {0, 999}, r2 \in {0, 250, 500, 750}, r3 \in {0, 250, 500, 750}}

InitMethods ==
    \E cfg \in Configs, v \in MethodVenues, list \in MethodLists, w \in MethodWeights :
       Prepared([cfg EXCEPT !.weights = NewWeights(w[1], w[2], w[3], w[4])],
                FreeRng, v, list)

NextMethods ==
    \/ FirstCall /\ \E chr \in Assignments(venue, Len(attendees)) : fitnessCall(chr)
    \/ FirstCall /\ \E chr \in Assignments(venue, Len(attendees)) \cup {Null} :
                       getSeatingPlan(chr)
    \/ FirstCall /\ \E chr \in Assignments(venue, Len(attendees)), d \in MutateInputs :
                       mutateCall(chr, d)
    \/ FirstCall /\ \E p1, p2 \in Assignments(venue, Len(attendees)),
                         d \in CrossoverInputs :
                       crossoverCall(p1, p2, d)

SpecMethods == InitMethods /\ [][NextMethods]_vars

\* ------------------------------------------------------------------------
\* The targeted swaps, on venues in which two seats lie more than 3 apart
\* ------------------------------------------------------------------------
SmartVenues ==
    {[rows |-> 2, cols |-> 4, vipRows |-> 1], [rows |-> 5, cols |-> 1, vipRows |-> 2]}

\* two friends and an outsider; two friends, a VIP and an outsider; a VIP and
\* a regular; two groups of two, one of them with a VIP
SmartLists ==
    {<<Regular(5, "g"), Regular(5, "g"), Regular(5, "")>>,
     <<Regular(5, "g"), Regular(5, "g"), Vip(10), Regular(5, "")>>,
     <<Vip(10), Regular(3, "")>>,
     <<Regular(5, "g"), Regular(5, "h"), VipIn(5, "g"), Regular(5, "h")>>}

\* the two coins of smartMutate
SmartInputs == {<<r1, r2>> : r1 \in {0, 999}, r2 \in {0, 999}}

InitSmart ==
    \E cfg \in Configs, v \in SmartVenues, list \in SmartLists :
       Prepared(cfg, FreeRng, v, list)

NextSmart ==
    \/ FirstCall /\ \E chr \in Assignments(venue, Len(attendees)), d \in SmartInputs :
                       smartMutateCall(chr, d)
    \/ FirstCall /\ \E chr \in Assignments(venue, Len(attendees)) :
                       improveFriendProximityCall(chr)
    \/ FirstCall /\ \E chr \in Assignments(venue, Len(attendees)) :
                       improveVipPlacementCall(chr)
    \/ FirstCall /\ \E chr \in Assignments(venue, Len(attendees)) :
                       findWeakAreaCall(chr)

SpecSmart == InitSmart /\ [][NextSmart]_vars

\* The server: clients create, change and delete events while requests to
\* optimize an event are in flight.
InitServer == \E cfg \in Configs : Constructed(cfg, FreeRng)

NextServer ==
    \/ \E id \in EventIds : \E v \in {NullVenue, Hall} :
            createEvent(id, "gala", v)
    \/ \E id \in EventIds : \E name \in {"", "ball"} : \E v \in {NullVenue, Hall} :
            updateEvent(id, name, v)
    \/ \E id \in EventIds : deleteEvent(id)
    \/ \E id \in EventIds : \E a \in AttendeeIds : addAttendees(id, a)
    \/ \E id \in EventIds : \E a \in AttendeeIds : removeAttendee(id, a)
    \/ \E r \in RequestIds : \E id \in EventIds : optimizeBegin(r, id)
    \/ \E r \in RequestIds : optimizeSave(r)

SpecServer == InitServer /\ [][NextServer]_vars

\* ------------------------------------------------------------------------
\* Properties
\* ------------------------------------------------------------------------
\* 1 <= N <= R*C
SeatsSuffice ==
    /\ venue # NullVenue
    /\ Len(attendees) >= 1
    /\ Len(attendees) <= TotalSeats(venue)

Elements(seq) == {seq[i] : i \in 1 .. Len(seq)}

\* the chromosomes call c holds: its population, the new population, the
\* children once mutated, the solutions of the annealing, the returned solution
Chromosomes(c) ==
    Elements(calls[c].population) \cup Elements(calls[c].newPopulation)
      \cup (IF calls[c].pc = "smart" THEN {calls[c].c1, calls[c].c2} ELSE {})
      \cup (IF calls[c].pc = "sa" THEN {calls[c].sa.current, calls[c].sa.best} ELSE {})
      \cup (IF calls[c].pc = "done" THEN {calls[c].result.solution} ELSE {})

\* C1: for 1 <= N <= R*C every chromosome that exists during optimize() is an
\* array of exactly N pairwise-distinct seat positions in [0, R*C)
C1_ChromosomesValid ==
    SeatsSuffice =>
      \A c \in CallIds : \A chr \in Chromosomes(c) :
         ValidChromosome(venue, attendees, chr)

\* C2: within one optimize() call fitnessHistory is non-decreasing
C2_HistoryNonDecreasing ==
    \A k \in 1 .. Len(fitnessHistory) - 1 :
       Ge(fitnessHistory[k + 1], fitnessHistory[k])

\* the second generation improved the global best
C2_Improved ==
    /\ Len(fitnessHistory) >= 2
    /\ Gt(fitnessHistory[2], fitnessHistory[1])

\* C3: once stop() was called while optimize() runs (from the progress
\* callback or during an await), the call starts no further generation: it
\* waits for its timer, which can fire, then leaves the loop and returns
C3_StopEndsRun ==
    [][\A c \in CallIds :
         obs[c].stopped =>
           /\ obs'[c].generations = obs[c].generations
           /\ calls[c].pc \in {"yield", "loop", "done"}
           /\ calls[c].pc = "yield" =>
                (ENABLED resume(c)) /\ calls'[c].pc \in {"yield", "loop"}
           /\ calls[c].pc = "loop" =>
                (ENABLED loopHead(c)) /\ calls'[c].pc \in {"loop", "done"}]_vars

\* a call stopped before its last generation has returned
C3_StoppedEarly ==
    /\ obs[1].stopped
    /\ calls[1].pc = "done"
    /\ obs[1].generations < TotalGenerations(config)

\* C4: a call cancelled by stop() never invokes simulatedAnnealing, and it
\* returns the global best recorded at the end of its last completed generation
C4_CancelSkipsSA ==
    \A c \in CallIds :
       obs[c].stopped =>
         /\ ~obs[c].annealed
         /\ calls[c].pc = "done" =>
              /\ calls[c].result.solution = obs[c].genBest[1]
              /\ calls[c].result.fitness = obs[c].genBest[2]

\* a cancelled call has returned a solution
C4_CancelledReturned ==
    /\ obs[1].stopped
    /\ calls[1].pc = "done"
    /\ calls[1].result.solution # Null
    /\ Len(calls[1].result.history) >= 1

\* C5: a cancelled optimize() call returns N pairwise-distinct seat positions
\* in [0, R*C), with no -1 or undefined entry
C5_CancelledValid ==
    SeatsSuffice =>
      \A c \in CallIds :
         (obs[c].stopped /\ calls[c].pc = "done") =>
            ValidChromosome(venue, attendees, calls[c].result.solution)

\* C6: of two optimize() calls that overlap at their awaits, each returns the
\* history of its own population, and a call that was not cancelled runs all
\* its generations
C6_NoInterference ==
    \A c \in CallIds :
       calls[c].pc = "done" =>
         /\ calls[c].result.history = obs[c].ownHistory
         /\ ~obs[c].stopped => obs[c].generations = TotalGenerations(config)

\* C7: two runs of optimize() on the same draws, venue, attendees and config,
\* made one after the other on the same instance, return the same solution and
\* the same history
C7_SameResult ==
    (calls[1].pc = "done" /\ calls[2].pc = "done") =>
       /\ calls[1].result.solution = calls[2].result.solution
       /\ calls[1].result.history = calls[2].result.history

\* C8: with more attendees than seats optimize() fails at its entry, before
\* isRunning, fitnessHistory, bestSolution or bestFitness is modified
C8_RejectedAtEntry ==
    (venue # NullVenue /\ Len(attendees) > TotalSeats(venue)) =>
       /\ \A c \in CallIds : calls[c].pc \in {"idle", "rejected"}
       /\ isRunning = FALSE
       /\ fitnessHistory = <<>>
       /\ bestSolution = Null
       /\ bestFitness = InitialFitness

\* C9: optimize() called while the venue is unset or the attendee list is empty
\* fails and leaves isRunning, fitnessHistory, bestSolution, bestFitness and
\* currentGeneration unchanged
C9_RejectLeavesState ==
    [][\A c \in CallIds :
         (/\ venue = NullVenue \/ Len(attendees) = 0
          /\ calls[c].pc = "idle"
          /\ calls'[c].pc # "idle")
         => /\ calls'[c].pc = "rejected"
            /\ UNCHANGED <<isRunning, fitnessHistory, bestSolution, bestFitness,
                           currentGeneration, server>>]_vars

\* a call was rejected at its entry
C9_Rejected == calls[1].pc = "rejected"

\* C10: with all four weights zero no fitness record whose total is undefined
\* is returned or compared
C10_NoUndefinedTotal ==
    /\ bestFitness.total # NaN
    /\ \A c \in CallIds : \A i \in 1 .. Len(calls[c].fitnessValues) :
          calls[c].fitnessValues[i].total # NaN

\* the i-th largest total of a population's fitness values
TopTotal(fitnessValues, i) == fitnessValues[SortByTotal(fitnessValues)[i]].total

\* C11: when a generation ends, each of the elitismCount highest totals of the
\* new population is >= the corresponding one of the population it was bred from
C11_ElitismKeepsTop ==
    [][\A c \in CallIds :
         (calls[c].pc = "evaluate" /\ calls'[c].pc \in {"yield", "loop"})
         => \A i \in 1 .. config.elitismCount :
               Ge(TopTotal(calls'[c].fitnessValues, i),
                  TopTotal(calls[c].fitnessValues, i))]_vars

\* a generation has ended in which a child scores below the surviving elite
C11_EliteSurvived ==
    /\ calls[1].pc \in {"yield", "loop"}
    /\ obs[1].generations >= 1
    /\ \E i \in 1 .. Len(calls[1].fitnessValues) :
          Gt(TopTotal(calls[1].fitnessValues, 1), calls[1].fitnessValues[i].total)
    /\ TopTotal(calls[1].fitnessValues, 1) = fitnessHistory[Len(fitnessHistory)]

\* the positions at which no generation of the call is under way
BetweenGenerations == {"yield", "loop", "sa", "done"}

\* C12: the progress callback is invoked once per completed generation, with
\* generation 0, 1, 2, ... in order, progress = (generation + 1) /
\* totalGenerations within [0, 1], and a bestFitness.total that never decreases
C12_ProgressInOrder ==
    \A c \in CallIds :
       LET r == obs[c].reports
       IN /\ \A k \in 1 .. Len(r) :
               /\ r[k].generation = k - 1
               /\ r[k].totalGenerations = TotalGenerations(config)
               /\ r[k].progress = (k * Scale) \div r[k].totalGenerations
               /\ r[k].progress >= 0
               /\ r[k].progress <= Scale
          /\ \A k \in 1 .. Len(r) - 1 :
               Ge(r[k + 1].bestFitness.total, r[k].bestFitness.total)
          /\ calls[c].hasProgress =>
               /\ Len(r) <= obs[c].generations
               /\ obs[c].generations <= Len(r) + 1
               /\ calls[c].pc \in BetweenGenerations => Len(r) = obs[c].generations
          /\ ~calls[c].hasProgress => Len(r) = 0

\* a call with a progress callback has returned after two generations, the
\* second of which improved the best
C12_TwoReports ==
    /\ calls[1].pc = "done"
    /\ Len(obs[1].reports) = 2
    /\ Gt(obs[1].reports[2].bestFitness.total, obs[1].reports[1].bestFitness.total)

\* the weights are non-negative and their sum is positive
WeightsPositive(w) ==
    /\ w.friendProximity >= 0 /\ w.vipPlacement >= 0
    /\ w.groupCohesion >= 0 /\ w.stageDistance >= 0
    /\ w.friendProximity + w.vipPlacement + w.groupCohesion + w.stageDistance > 0

InUnit(x) == x >= 0 /\ x <= Scale

\* C13: for a valid assignment and non-negative weights with a positive sum,
\* calculateFitness returns four sub-scores and a total that lie in [0, 1]
C13_ScoresInUnit ==
    (/\ returned.op = "calculateFitness"
     /\ ValidChromosome(venue, attendees, returned.chromosome)
     /\ WeightsPositive(config.weights))
    => /\ InUnit(returned.result.friendProximity)
       /\ InUnit(returned.result.vipPlacement)
       /\ InUnit(returned.result.groupCohesion)
       /\ InUnit(returned.result.stageDistance)
       /\ InUnit(returned.result.total)

\* three attendees who all share one group sit in a block whose pairwise
\* points exceed the (n - 1) * 2 of the normalisation: the cap applies
C13_OneGroupCapped ==
    /\ returned.op = "calculateFitness"
    /\ Len(attendees) = 3
    /\ \A i \in 1 .. 3 : attendees[i].group = "g"
    /\ CohesionPoints(venue, returned.chromosome, <<1, 2, 3>>) > 4
    /\ returned.result.groupCohesion = Scale
    /\ returned.result.total < Scale

\* attendees i # j who share a group
HasFriends(att) ==
    \E i, j \in 1 .. Len(att) :
       i # j /\ att[i].group # "" /\ att[i].group = att[j].group

HasVip(att) == \E i \in 1 .. Len(att) : att[i].type = "vip"

\* C14 as stated: each of friendProximity, vipPlacement and groupCohesion is 1
\* if and only if its category is empty (no friend, no VIP, no group of two or
\* more)
C14_OneIffEmpty ==
    returned.op = "calculateFitness" =>
       /\ returned.result.friendProximity = Scale <=> ~HasFriends(attendees)
       /\ returned.result.vipPlacement = Scale <=> ~HasVip(attendees)
       /\ returned.result.groupCohesion = Scale <=> ~HasFriends(attendees)

\* C14: when no attendee has a friend friendProximity is exactly 1, when no
\* attendee is a VIP vipPlacement is exactly 1, and when no group has two or
\* more members groupCohesion is exactly 1, for every assignment
C14_EmptyGivesOne ==
    returned.op = "calculateFitness" =>
       /\ ~HasFriends(attendees) => returned.result.friendProximity = Scale
       /\ ~HasVip(attendees) => returned.result.vipPlacement = Scale
       /\ ~HasFriends(attendees) => returned.result.groupCohesion = Scale

\* an assignment was scored for attendees without friend, VIP or group, and
\* its stage distance score is below 1
C14_AllEmpty ==
    /\ returned.op = "calculateFitness"
    /\ ~HasFriends(attendees)
    /\ ~HasVip(attendees)
    /\ returned.result.friendProximity = Scale
    /\ returned.result.stageDistance < Scale

\* C15: for a valid assignment A, getSeatingPlan(A) returns one entry per
\* attendee, in attendee order, and entry i has seat.row * cols + seat.col = A[i]
C15_PlanDecodes ==
    (/\ returned.op = "getSeatingPlan"
     /\ returned.solution # Null
     /\ ValidChromosome(venue, attendees, returned.solution))
    => /\ returned.result.kind = "plan"
       /\ Len(returned.result.entries) = Len(attendees)
       /\ \A i \in 1 .. Len(attendees) :
             /\ returned.result.entries[i].attendee = attendees[i]
             /\ returned.result.entries[i].seat.row * venue.cols
                   + returned.result.entries[i].seat.col = returned.solution[i]

\* the plan of three attendees seated in rows 1 and 0, out of seat order
C15_PlanOfThree ==
    /\ returned.op = "getSeatingPlan"
    /\ returned.solution = <<3, 0, 2>>
    /\ returned.result.kind = "plan"
    /\ returned.result.entries[1].seat.row = 1
    /\ returned.result.entries[1].seat.col = 1

\* the generations and the SA iterations of the mode, as the claim lists them
ModeGenerations ==
    IF config.mode = "fast" THEN 50
    ELSE IF config.mode = "thorough" THEN 500
    ELSE config.generations

ModeIterations ==
    IF config.mode = "fast" THEN 20
    ELSE IF config.mode = "thorough" THEN 200
    ELSE 100

\* C16: for 1 <= N <= R*C, an optimize() call that is not cancelled and has
\* ended ran exactly the generations of its mode and at most the SA iterations
\* of its mode, and the history it returns has one entry per generation
C16_ModeGenerations ==
    SeatsSuffice =>
      \A c \in CallIds :
         (calls[c].pc \in {"done", "threw"} /\ ~obs[c].stopped) =>
            /\ obs[c].generations = ModeGenerations
            /\ obs[c].iterations <= ModeIterations
            /\ calls[c].pc = "done" =>
                 Len(calls[c].result.history) = obs[c].generations

\* the positions at which the call holds the population of a generation
HoldsPopulation(rec) ==
    /\ rec.pc \notin {"idle", "random", "done", "rejected", "threw"}
    /\ rec.ctx # "init"

\* C17: the population holds exactly populationSize chromosomes after
\* initializePopulation and at the end of every generation, whatever
\* populationSize >= 1 and elitismCount are
C17_PopulationSize ==
    \A c \in CallIds :
       /\ HoldsPopulation(calls[c]) =>
            Len(calls[c].population) = config.populationSize
       /\ calls[c].pc = "evaluate" =>
            Len(calls[c].newPopulation) = config.populationSize
       /\ Len(calls[c].newPopulation) <= config.populationSize

\* a generation ends whose places for children are odd in number: the second
\* child of the last crossover found the population full
C17_SecondChildDropped ==
    /\ calls[1].pc \in {"yield", "loop"}
    /\ obs[1].generations = 1
    /\ (config.populationSize - config.elitismCount) % 2 = 1
    /\ Len(calls[1].population) = config.populationSize

\* the segment start .. end (JS indices) that crossover chose on its draws
SegmentStart == (returned.draws[2] * Len(returned.parent1)) \div Scale

SegmentEnd ==
    SegmentStart
      + (returned.draws[3] * (Len(returned.parent1) - SegmentStart)) \div Scale

\* C18: for two valid parents of length N, crossover returns two children of
\* length N that are each N pairwise-distinct seats, and on the segment
\* start .. end child 1 equals parent 1 and child 2 equals parent 2
C18_CrossoverValid ==
    (/\ returned.op = "crossover"
     /\ ValidChromosome(venue, attendees, returned.parent1)
     /\ ValidChromosome(venue, attendees, returned.parent2))
    => /\ ValidChromosome(venue, attendees, returned.result[1])
       /\ ValidChromosome(venue, attendees, returned.result[2])
       /\ returned.draws[1] <= config.crossoverRate =>
             /\ SegmentStart <= SegmentEnd
             /\ SegmentEnd < Len(attendees)
             /\ \A k \in SegmentStart .. SegmentEnd :
                   /\ returned.result[1][k + 1] = returned.parent1[k + 1]
                   /\ returned.result[2][k + 1] = returned.parent2[k + 1]

\* a crossover of parents that use different seats, with an inner segment
C18_DifferentSeats ==
    /\ returned.op = "crossover"
    /\ returned.draws[1] <= config.crossoverRate
    /\ Elements(returned.parent1) # Elements(returned.parent2)
    /\ SegmentStart = 1
    /\ SegmentEnd = 1
    /\ Len(returned.parent1) = 3
    /\ returned.result[1] # returned.parent1
    /\ returned.result[1] # returned.parent2

\* mutate made its block swap on the returned draws
BlockSwapped ==
    /\ returned.op = "mutate"
    /\ returned.draws[1] < MutationRate(config, currentGeneration)
    /\ returned.draws[4] < 300

SwapLen == (returned.draws[5] * 5) \div Scale + 2

SwapStart1 == (returned.draws[6] * (Len(returned.chromosome) - SwapLen)) \div Scale

SwapStart2 == (returned.draws[7] * (Len(returned.chromosome) - SwapLen)) \div Scale

\* C19: in mutate's block swap, for every length N >= 1 and block length L in
\* [2, 6], both starts s satisfy 0 <= s and s + L <= N, and the chromosome
\* keeps its length N
C19_BlockInRange ==
    BlockSwapped =>
       /\ SwapLen \in 2 .. 6
       /\ 0 <= SwapStart1 /\ SwapStart1 + SwapLen <= Len(returned.chromosome)
       /\ 0 <= SwapStart2 /\ SwapStart2 + SwapLen <= Len(returned.chromosome)
       /\ Len(returned.result.arr) = Len(returned.chromosome)
       /\ returned.result.neg = NoProps

\* a seat position occurs twice among the elements of arr
SeatTwice(arr) ==
    \E i, j \in 1 .. Len(arr) : i # j /\ arr[i] = arr[j] /\ arr[i] # Undef

\* the two blocks lie within the array and share a position without being
\* the same block
BlocksOverlap(n, len, start1, start2) ==
    /\ 0 <= start1 /\ start1 + len <= n
    /\ 0 <= start2 /\ start2 + len <= n
    /\ start1 # start2
    /\ Abs(start1 - start2) < len

\* C20 as stated: there is a valid chromosome and a choice of two overlapping
\* blocks for which mutate's block swap yields a seat position twice
C20_OverlapCanDuplicate ==
    \E v \in MethodVenues, list \in MethodLists :
    \E chr \in Assignments(v, Len(list)), d \in MutateInputs :
       /\ d[1] < MutationRate(config, currentGeneration)
       /\ d[4] < 300
       /\ BlocksOverlap(Len(chr), BlockLen(d[5]),
                        BlockStart(d[6], Len(chr), BlockLen(d[5])),
                        BlockStart(d[7], Len(chr), BlockLen(d[5])))
       /\ SeatTwice(mutate(config, currentGeneration, ArrayObj(chr), d).arr)

\* C20: mutate, its block swap included, applied to a valid chromosome never
\* yields a chromosome in which a seat position occurs twice, whether or not
\* the two blocks overlap: every step exchanges two elements
C20_NoSeatTwice ==
    (returned.op = "mutate"
       /\ ValidChromosome(venue, attendees, returned.chromosome))
    => ~SeatTwice(returned.result.arr)

\* a block swap of two overlapping blocks of a valid chromosome of four
C20_Overlapped ==
    /\ BlockSwapped
    /\ BlocksOverlap(Len(returned.chromosome), SwapLen, SwapStart1, SwapStart2)
    /\ ValidChromosome(venue, attendees, returned.result.arr)
    /\ returned.result.arr # returned.chromosome

\* the attendees (1-based) whose seat differs between two assignments
Moved(before, after) == {i \in 1 .. Len(before) : after[i] # before[i]}

\* the first friendship pair seated more than 3 apart has an attendee, other
\* than the two, next to the friend
FriendSwapExists(v, att, chr) ==
    /\ FarPairs(v, att, chr) # {}
    /\ LET pair == Friendships(att)[MinOf(FarPairs(v, att, chr))]
       IN \E t \in 1 .. Len(att) :
             /\ t \notin {pair[1], pair[2]}
             /\ getSeatDistance(v, chr[t], chr[pair[2]]) = 1

VipSwapExists(v, att, chr) ==
    MisplacedVips(v, att, chr) # {} /\ RegularsInVipSeats(v, att, chr) # {}

\* C21: one call of smartMutate on a valid assignment makes at most one swap:
\* what it returns differs from its argument in at most two positions, and
\* is its argument when there is no swap to make
C21_AtMostOneSwap ==
    (/\ returned.op = "smartMutate"
     /\ ValidChromosome(venue, attendees, returned.chromosome))
    => /\ returned.result # Throw
       /\ Cardinality(Moved(returned.chromosome, returned.result)) <= 2
       /\ (~FriendSwapExists(venue, attendees, returned.chromosome)
             /\ ~VipSwapExists(venue, attendees, returned.chromosome))
            => returned.result = returned.chromosome

\* a call of smartMutate in which both coins fall and both swaps are made
C21_TwoSwaps ==
    /\ returned.op = "smartMutate"
    /\ ValidChromosome(venue, attendees, returned.chromosome)
    /\ Cardinality(Moved(returned.chromosome, returned.result)) = 3

\* chr with the seats of attendees i and j exchanged
Exchanged(chr, i, j) == [chr EXCEPT ![i] = chr[j], ![j] = chr[i]]

\* the positions, in map order, of the friendship pairs seated more than 3
\* apart
FarFriends(chr) ==
    {k \in 1 .. Len(Friendships(attendees)) :
        getSeatDistance(venue, chr[Friendships(attendees)[k][1]],
                        chr[Friendships(attendees)[k][2]]) > 3}

\* the attendees other than a and f seated next to f
NextTo(chr, a, f) ==
    {t \in 1 .. Len(chr) : t \notin {a, f} /\ getSeatDistance(venue, chr[t], chr[f]) = 1}

\* what the claim says of the first far pair <<a, f>>
FriendSwapOf(chr, result, a, f) ==
    IF NextTo(chr, a, f) = {} THEN result = chr
    ELSE \E t \in NextTo(chr, a, f) :
            /\ result = Exchanged(chr, a, t)
            /\ Moved(chr, result) = {a, t}
            /\ getSeatDistance(venue, result[a], result[f]) = 1

\* C22: improveFriendProximity, for the first friendship pair (a, f) seated
\* more than 3 apart, exchanges the seats of a and of a third attendee t next
\* to f and of nobody else, after which a and f are at distance 1; without
\* such a t, and without a far pair, it leaves the chromosome as it is
C22_FriendSwap ==
    (/\ returned.op = "improveFriendProximity"
     /\ ValidChromosome(venue, attendees, returned.chromosome))
    => IF FarFriends(returned.chromosome) = {}
       THEN returned.result = returned.chromosome
       ELSE FriendSwapOf(returned.chromosome, returned.result,
                         Friendships(attendees)[MinOf(FarFriends(returned.chromosome))][1],
                         Friendships(attendees)[MinOf(FarFriends(returned.chromosome))][2])

\* two friends 4 apart were brought together among four attendees
C22_BroughtTogether ==
    /\ returned.op = "improveFriendProximity"
    /\ Len(attendees) = 4
    /\ returned.result # returned.chromosome
    /\ getSeatDistance(venue, returned.chromosome[1], returned.chromosome[2]) = 4
    /\ getSeatDistance(venue, returned.result[1], returned.result[2]) = 1

\* the number of VIPs seated in VIP seats
VipsInVipSeats(chr) ==
    Cardinality({i \in 1 .. Len(attendees) :
                   attendees[i].type = "vip" /\ SeatIsVip(venue, chr[i])})

\* i is a VIP in a non-VIP seat and j a non-VIP in a VIP seat
Misplaced(chr, i, j) ==
    /\ attendees[i].type = "vip" /\ ~SeatIsVip(venue, chr[i])
    /\ attendees[j].type # "vip" /\ SeatIsVip(venue, chr[j])

\* C23: improveVipPlacement on a valid assignment with a VIP in a non-VIP seat
\* and a non-VIP in a VIP seat exchanges one such pair, and one more VIP sits
\* in a VIP seat; without such a pair the chromosome is unchanged
C23_VipSwap ==
    (/\ returned.op = "improveVipPlacement"
     /\ ValidChromosome(venue, attendees, returned.chromosome))
    => IF \E i, j \in 1 .. Len(attendees) : Misplaced(returned.chromosome, i, j)
       THEN /\ \E i, j \in 1 .. Len(attendees) :
                  /\ Misplaced(returned.chromosome, i, j)
                  /\ returned.result = Exchanged(returned.chromosome, i, j)
            /\ VipsInVipSeats(returned.result)
                  = VipsInVipSeats(returned.chromosome) + 1
       ELSE returned.result = returned.chromosome

\* the one VIP of the list was moved from a non-VIP seat into a VIP seat
C23_VipMoved ==
    /\ returned.op = "improveVipPlacement"
    /\ VipsInVipSeats(returned.chromosome) = 0
    /\ VipsInVipSeats(returned.result) = 1
    /\ Cardinality(Moved(returned.chromosome, returned.result)) = 2

\* pair is (a member of a group with no other member within distance 2, a
\* non-member at distance 1 from another member of that group)
GroupPair(chr, pair) ==
    \E g \in 1 .. Len(Groups(attendees)) :
       LET members == {Groups(attendees)[g][k] : k \in 1 .. Len(Groups(attendees)[g])}
       IN /\ pair[1] \in members
          /\ \A o \in members \ {pair[1]} :
                getSeatDistance(venue, chr[pair[1]], chr[o]) > 2
          /\ pair[2] \notin members
          /\ \E o \in members \ {pair[1]} :
                getSeatDistance(venue, chr[o], chr[pair[2]]) = 1

C24_ReturnedBest ==
    \A c \in CallIds :
       /\ calls[c].pc = "done" =>
            /\ Ge(calls[c].result.fitness.total, obs[c].initialTotal)
            /\ \A k \in 1 .. Len(calls[c].result.history) :
                  Ge(calls[c].result.fitness.total, calls[c].result.history[k])
            /\ (obs[c].generations > 0
                  /\ <<calls[c].result.solution, calls[c].result.fitness>> # obs[c].genBest)
                 => Gt(calls[c].result.fitness.total, obs[c].genBest[2].total)
       /\ calls[c].pc = "sa" =>
            Ge(calls[c].sa.bestFitness.total,
               calculateFitness(venue, attendees, config.weights, bestSolution).total)

\* a call returned a solution that the final annealing had improved, after
\* the annealing had accepted a neighbour
C24_Polished ==
    /\ calls[1].pc = "done"
    /\ obs[1].annealed
    /\ obs[1].iterations >= 2
    /\ Gt(calls[1].result.fitness.total, obs[1].genBest[2].total)
    /\ Gt(calls[1].result.fitness.total, obs[1].initialTotal)

\* the fitness record of a solution under the current weights
RecordOf(solution) == calculateFitness(venue, attendees, config.weights, solution)

\* C26: at the end of every generation and at return from optimize(),
\* bestFitness is the fitness record of bestSolution under the current
\* weights, and the returned fitness is that of the returned solution
C26_FitnessOfSolution ==
    \A c \in CallIds :
       /\ (calls[c].pc \in {"yield", "loop", "done"} /\ obs[c].generations >= 1)
            => bestFitness = RecordOf(bestSolution)
       /\ calls[c].pc = "done"
            => /\ calls[c].result.fitness = RecordOf(calls[c].result.solution)
               /\ calls[c].result.solution = bestSolution
               /\ calls[c].result.fitness = bestFitness

\* a call returned the solution of the annealing in place of the best of its
\* generations
C26_ReturnedRefined ==
    /\ calls[1].pc = "done"
    /\ obs[1].annealed
    /\ calls[1].result.solution # obs[1].genBest[1]
    /\ calls[1].result.fitness = RecordOf(calls[1].result.solution)

\* C27: once an optimize() call has settled after its entry check, by a
\* return or by an error, isRunning is false
C27_SettledNotRunning ==
    \A c \in CallIds : calls[c].pc \in {"done", "threw"} => isRunning = FALSE

\* C28: for 1 <= N <= R*C, a call made after a stop() that came while no call
\* ran, and not stopped during its run, sets isRunning and, once it has
\* settled, has run all its generations and the final simulated annealing
C28_EarlyStopForgotten ==
    \A c \in CallIds :
       (SeatsSuffice /\ obs[c].stoppedBefore /\ ~obs[c].stopped) =>
          /\ calls[c].pc \notin {"idle", "rejected", "done", "threw"} => isRunning
          /\ calls[c].pc \in {"done", "threw"} =>
               /\ obs[c].generations = TotalGenerations(config)
               /\ obs[c].annealed

\* the seats of parent that are not in the segment start .. end of segmentOf
SeatsLeft(parent, segmentOf) ==
    Elements(parent) \ {segmentOf[k + 1] : k \in SegmentStart .. SegmentEnd}

\* C29: for valid parents of equal length N and a segment start <= end < N,
\* the other parent holds at least as many seats not yet in the child as the
\* child has empty positions, and both fill loops end, none of them making N
\* parent steps without filling a position
C29_FillTerminates ==
    (/\ returned.op = "crossover"
     /\ returned.draws[1] <= config.crossoverRate
     /\ ValidChromosome(venue, attendees, returned.parent1)
     /\ ValidChromosome(venue, attendees, returned.parent2))
    => /\ Cardinality(SeatsLeft(returned.parent2, returned.parent1))
            >= Len(attendees) - (SegmentEnd - SegmentStart + 1)
       /\ Cardinality(SeatsLeft(returned.parent1, returned.parent2))
            >= Len(attendees) - (SegmentEnd - SegmentStart + 1)
       /\ returned.result[1] # Hang
       /\ returned.result[2] # Hang

\* a fill of two positions that passed over a seat of the segment and took a
\* seat the first parent does not hold
C29_FilledAround ==
    /\ returned.op = "crossover"
    /\ returned.draws[1] <= config.crossoverRate
    /\ Len(attendees) = 3
    /\ SegmentStart = 0
    /\ SegmentEnd = 0
    /\ returned.parent1[1] \in {returned.parent2[2], returned.parent2[3]}
    /\ Elements(returned.result[1]) # Elements(returned.parent1)
    /\ returned.result[1] # Hang

\* the events of the file without the results of the optimizations: what
\* creating, updating and deleting events and adding and removing attendees
\* change
Content(data) ==
    [i \in 1..Len(data) |->
        [id |-> data[i].id, name |-> data[i].name, venue |-> data[i].venue,
         attendees |-> data[i].attendees]]

\* C30: what other requests committed to the events file while a request to
\* optimize an event awaited the optimizer (an event created, updated or
\* deleted, an attendee added or removed) is still in the file after the
\* optimize request saved its results: the save changes nothing of the file
\* but the results of optimizations.
C30_ChangesSurvive ==
    [][\A r \in RequestIds :
          (/\ server.requests[r].pc = "awaiting"
           /\ server'.requests[r].pc = "done"
           /\ server'.requests[r].status = 200)
          => Content(server'.store) = Content(server.store)]_vars

====
